---- MODULE Spec2Model ----
(***************************************************************************)
(* A model of the SorobanDomains SDK (src/src/sdk.ts): the static helpers  *)
(* hash, parseDomain and isValidDomain, and the six asynchronous           *)
(* operations of an SDK instance with the RPC calls they issue.            *)
(*                                                                         *)
(* Text is a sequence of one-character strings, a byte string a sequence   *)
(* of numbers 0..255.  An optional value (undefined / null in the source)  *)
(* is a sequence of at most one element: None or Some(x).                  *)
(***************************************************************************)
EXTENDS Integers, Sequences, FiniteSets, TLC

\* ------------------------------------------------------------------ bounds
MaxNameLen == 2     \* longest domain / subDomain text handed to the hasher
MaxLabels == 4      \* most labels of a text handed to isValidDomain
MaxDomainLen == 5   \* longest dotted text handed to setReverseDomain

\* --------------------------------------------------------- program constants
MaxParts == 3       \* isValidDomain: parts.length > 3 is rejected
MaxPartLen == 15    \* isValidDomain: part.length <= 15
MinTldLen == 2      \* isValidDomain: the regex's {2,}
MinParts == 2       \* setReverseDomain: parts.length < 2 is rejected

\* ------------------------------------------------------------------ options
None == <<>>
Some(x) == <<x>>

\* -------------------------------------------------------------------- text
LowerChars == {"a", "b", "e", "l", "m", "n", "p", "r", "s", "t", "x", "y"}
UpperChars == {"A", "B"}

\* [a-z] of the validator's regular expression
IsLower(c) == c \in LowerChars

\* String.prototype.toLocaleLowerCase, one character
LowerChar(c) == CASE c = "A" -> "a" [] c = "B" -> "b" [] OTHER -> c

toLocaleLowerCase(s) == [i \in 1..Len(s) |-> LowerChar(s[i])]

\* TextEncoder.encode: the UTF-8 byte of each (ASCII) character
CharCode(c) ==
  CASE c = "a" -> 97 [] c = "b" -> 98 [] c = "l" -> 108 [] c = "m" -> 109
    [] c = "x" -> 120 [] c = "A" -> 65 [] c = "B" -> 66 [] c = "." -> 46
    [] c = "1" -> 49 [] c = "-" -> 45 [] c = " " -> 32
    [] c = "e" -> 101 [] c = "n" -> 110 [] c = "p" -> 112 [] c = "r" -> 114
    [] c = "s" -> 115 [] c = "t" -> 116 [] c = "y" -> 121

TextEncode(s) == [i \in 1..Len(s) |-> CharCode(s[i])]

\* TextDecoder / Buffer.toString(): the inverse of TextEncode
CodeChar(b) == CHOOSE c \in LowerChars \cup UpperChars \cup {".", "1", "-", " "} : CharCode(c) = b

TextDecode(bytes) == [i \in 1..Len(bytes) |-> CodeChar(bytes[i])]

\* String.prototype.split(".")
RECURSIVE split(_)
split(s) ==
  IF \A i \in 1..Len(s) : s[i] # "."
    THEN <<s>>
    ELSE LET i == CHOOSE k \in 1..Len(s) : s[k] = "." /\ \A j \in 1..(k - 1) : s[j] # "."
         IN  <<SubSeq(s, 1, i - 1)>> \o split(SubSeq(s, i + 1, Len(s)))

\* Array.prototype.join(".")
RECURSIVE join(_)
join(parts) ==
  IF Len(parts) = 0 THEN <<>>
  ELSE IF Len(parts) = 1 THEN parts[1]
  ELSE parts[1] \o <<".">> \o join(Tail(parts))

\* every text over the characters S of length at most n
StringsUpTo(S, n) == UNION {[1..k -> S] : k \in 0..n}

\* ----------------------------------------------------------------- hashing
(***************************************************************************)
(* crypto.subtle.digestSync("KECCAK-256", bytes).  Keccak-256 is modelled  *)
(* as an ideal hash: the digest of a byte string is that byte string       *)
(* framed by two bytes that no UTF-8 text contains, so that the function   *)
(* is total, deterministic and free of collisions.  The digest's width and *)
(* its bit pattern are not those of Keccak-256.                            *)
(***************************************************************************)
DigestOpen == 254
DigestClose == 255

digestSync(bytes) == <<DigestOpen>> \o bytes \o <<DigestClose>>

\* a variant of hashText that lowercases the text before it hashes it
hashTextLowered(text) == digestSync(TextEncode(toLocaleLowerCase(text)))

\* SorobanDomainsSDK.hash on a text
hashText(text) == digestSync(TextEncode(text))

\* SorobanDomainsSDK.hash on a byte string
hashBytes(bytes) == digestSync(bytes)

\* concat([a, b]) of @std/bytes
concat(a, b) == a \o b

HexDigits == <<"0", "1", "2", "3", "4", "5", "6", "7", "8", "9", "a", "b", "c", "d", "e", "f">>

\* encodeHex of @std/encoding: two lowercase hex digits per byte
RECURSIVE encodeHex(_)
encodeHex(bytes) ==
  IF Len(bytes) = 0 THEN <<>>
  ELSE <<HexDigits[(bytes[1] \div 16) + 1], HexDigits[(bytes[1] % 16) + 1]>> \o encodeHex(Tail(bytes))

HexValue(c) == CHOOSE v \in 0..15 : HexDigits[v + 1] = c

\* decodeHex of @std/encoding/hex
RECURSIVE decodeHex(_)
decodeHex(hex) ==
  IF Len(hex) = 0 THEN <<>>
  ELSE <<HexValue(hex[1]) * 16 + HexValue(hex[2])>> \o decodeHex(SubSeq(hex, 3, Len(hex)))

\* JavaScript truthiness of an optional text: undefined and "" are falsy
Truthy(opt) == opt # None /\ opt[1] # <<>>

\* params.tld || "xlm"
TldOrDefault(tld) == IF Truthy(tld) THEN tld[1] ELSE <<"x", "l", "m">>

\* a variant of ParseNode that concatenates the domain digest first
ParseNodeDomainFirst(domain, tld) ==
  hashBytes(concat(hashText(domain), hashText(TldOrDefault(tld))))

\* the node of parseDomain: hash(concat([hash(tld || "xlm"), hash(domain)]))
ParseNode(domain, tld) == hashBytes(concat(hashText(TldOrDefault(tld)), hashText(domain)))

\* a variant of ParseSubNode that concatenates the parent node itself, not its digest
ParseSubNodeFlat(node, subDomain) == hashBytes(concat(node, hashText(subDomain)))

\* the subNode of parseDomain: hash(concat([hash(node), hash(subDomain)]))
ParseSubNode(node, subDomain) == hashBytes(concat(hashBytes(node), hashText(subDomain)))

\* a variant of HasSubDomain that asks whether a subDomain was passed at all
HasSubDomainIfPassed(subDomain) == subDomain # None

\* if (params.subDomain)
HasSubDomain(subDomain) == Truthy(subDomain)

\* SorobanDomainsSDK.parseDomain
parseDomain(domain, subDomain, tld) ==
  LET node == ParseNode(domain, tld)
  IN  IF HasSubDomain(subDomain)
        THEN encodeHex(ParseSubNode(node, subDomain[1]))
        ELSE encodeHex(node)

\* ---------------------------------------------------------- isValidDomain
(***************************************************************************)
(* The regular expression ^[a-z]+(\.[a-z]+)*\.[a-z]{2,}$ as the automaton  *)
(* it denotes.  States: 0 start; 1 inside the first label; 2 after the dot *)
(* of a repeated group; 3 inside a repeated group's label; 4 after the     *)
(* final dot; 4 + k when k letters of the last label are read, counted up  *)
(* to MinTldLen.                                                           *)
(***************************************************************************)
RegexStep(q, c) ==
  CASE q = 0 -> IF IsLower(c) THEN {1} ELSE {}
    [] q = 1 -> IF IsLower(c) THEN {1} ELSE IF c = "." THEN {2, 4} ELSE {}
    [] q = 2 -> IF IsLower(c) THEN {3} ELSE {}
    [] q = 3 -> IF IsLower(c) THEN {3} ELSE IF c = "." THEN {2, 4} ELSE {}
    [] OTHER -> IF IsLower(c) THEN {IF q - 4 < MinTldLen THEN q + 1 ELSE q} ELSE {}

RegexAccepting(q) == q - 4 >= MinTldLen

\* the states the automaton can be in after reading s from the states qs; a
\* text of two or more characters is read as its first half, then its second
RECURSIVE RegexRun(_, _)
RegexRun(qs, s) ==
  IF Len(s) = 0 THEN qs
  ELSE IF Len(s) = 1 THEN UNION {RegexStep(q, s[1]) : q \in qs}
  ELSE LET half == Len(s) \div 2
           mid == RegexRun(qs, SubSeq(s, 1, half))
       IN  IF mid = {} THEN {} ELSE RegexRun(mid, SubSeq(s, half + 1, Len(s)))

\* domainRegex.test(domain)
RegexTest(s) == \E q \in RegexRun({0}, s) : RegexAccepting(q)

\* a variant of isValidDomain whose length check is off by one
isValidDomainShort(domain) ==
  IF ~RegexTest(domain) THEN FALSE
  ELSE LET parts == split(domain)
       IN  IF Len(parts) > MaxParts THEN FALSE
           ELSE \A i \in 1..Len(parts) : Len(parts[i]) < MaxPartLen

\* SorobanDomainsSDK.isValidDomain
isValidDomain(domain) ==
  IF ~RegexTest(domain) THEN FALSE
  ELSE LET parts == split(domain)
       IN  IF Len(parts) > MaxParts THEN FALSE
           ELSE \A i \in 1..Len(parts) : Len(parts[i]) <= MaxPartLen

\* ------------------------------------------------------------ wire values
(***************************************************************************)
(* xdr.ScVal of @stellar/stellar-sdk: a wire value is a record of its arm  *)
(* arm and its body.   Symbols, keys, addresses and contract ids are     *)
(* plain strings: the SDK never looks inside them.                         *)
(***************************************************************************)
scvVoid == [arm |-> "scvVoid", body |-> <<>>]
scvBool(b) == [arm |-> "scvBool", body |-> b]
scvBytes(bytes) == [arm |-> "scvBytes", body |-> bytes]
scvSymbol(sym) == [arm |-> "scvSymbol", body |-> sym]
scvString(str) == [arm |-> "scvString", body |-> str]
scvVec(items) == [arm |-> "scvVec", body |-> items]
scvU64(n) == [arm |-> "scvU64", body |-> n]
scvI128(n) == [arm |-> "scvI128", body |-> n]
scvAddress(a) == [arm |-> "scvAddress", body |-> a]
scvMap(entries) == [arm |-> "scvMap", body |-> entries]
MapEntry(k, val) == [key |-> k, val |-> val]

\* native (JavaScript) values, as scValToNative returns them
Null == [typeof |-> "null", data |-> <<>>]
Bool(b) == [typeof |-> "boolean", data |-> b]
Buffer(bytes) == [typeof |-> "buffer", data |-> bytes]
Str(str) == [typeof |-> "string", data |-> str]
BigInt(n) == [typeof |-> "bigint", data |-> n]
Array(items) == [typeof |-> "array", data |-> items]
Object(props) == [typeof |-> "object", data |-> props]
Prop(k, val) == [prop |-> k, data |-> val]

\* scValToNative
RECURSIVE scValToNative(_)
scValToNative(scv) ==
  CASE scv.arm = "scvVoid" -> Null
    [] scv.arm = "scvBool" -> Bool(scv.body)
    [] scv.arm = "scvBytes" -> Buffer(scv.body)
    [] scv.arm \in {"scvSymbol", "scvString", "scvAddress"} -> Str(scv.body)
    [] scv.arm \in {"scvU64", "scvI128"} -> BigInt(scv.body)
    [] scv.arm = "scvVec" -> Array([i \in 1..Len(scv.body) |-> scValToNative(scv.body[i])])
    [] scv.arm = "scvMap" ->
         Object([i \in 1..Len(scv.body) |-> Prop(scValToNative(scv.body[i].key).data, scValToNative(scv.body[i].val))])

\* a variant of Falsy that takes only null for an empty reply
FalsyNullOnly(x) == x.typeof = "null"

\* !result
Falsy(x) ==
  \/ x.typeof = "null"
  \/ x.typeof = "boolean" /\ x.data = FALSE
  \/ x.typeof = "bigint" /\ x.data = 0
  \/ x.typeof = "string" /\ x.data = ""

\* result[i] (0-based in the source): None is undefined
Index(x, i) == IF x.typeof = "array" /\ i + 1 <= Len(x.data) THEN Some(x.data[i + 1]) ELSE None

HasProp(x, k) == x.typeof = "object" /\ \E i \in 1..Len(x.data) : x.data[i].prop = k

\* x[k] of a native object
Get(x, k) == x.data[CHOOSE i \in 1..Len(x.data) : x.data[i].prop = k].data

\* BigInt.prototype.toString(): decimal digits
RECURSIVE DecimalString(_)
DecimalString(n) ==
  IF n < 10 THEN <<HexDigits[n + 1]>>
  ELSE DecimalString(n \div 10) \o <<HexDigits[(n % 10) + 1]>>

\* x.toString("hex") of a Buffer
HexString(x) == encodeHex(x.data)

\* x.toString() of a bigint
NumString(x) == DecimalString(x.data)

\* ------------------------------------------------------------ outcomes
Pending == [kind |-> "pending", value |-> <<>>]
Return(x) == [kind |-> "return", value |-> x]
Throw(name, message) == [kind |-> "throw", value |-> [name |-> name, message |-> message]]

\* errors.ts
Domain404Error == Throw("Domain404Error", "Domain doesn't exist")
DomainData404Error == Throw("DomainData404Error", "Domain data doesn't exist")
ReverseDomain404Error == Throw("ReverseDomain404Error", "Reverse domain doesn't exist")
DomainDataUnsupportedValueType ==
  Throw("DomainDataUnsupportedValueType", "Supported data types are: Bytes, Number and String")

\* new Error(message)
Error(message) == Throw("Error", message)

\* reading a property of undefined
TypeError == Throw("TypeError", "Cannot read properties of undefined")

\* a contract id is provided when it is neither undefined nor ""
Provided(id) == id # None /\ id[1] # ""

\* ----------------------------------------------------------- record codec
Undefined == [typeof |-> "undefined", data |-> <<>>]

\* x[k], undefined when x has no such property
PropOrUndefined(x, k) == IF HasProp(x, k) THEN Get(x, k) ELSE Undefined

AllProps(x, ks) == \A k \in ks : HasProp(x, k)

\* a variant of IsDomainTag that takes every tag but "SubDomain" for a Domain
IsDomainTagUnlessSubDomain(result) ==
  LET tag == Index(result, 0)
  IN  tag # None /\ tag[1].typeof = "string" /\ tag[1].data # "SubDomain"

\* result[0] === "Domain"
IsDomainTag(result) ==
  LET tag == Index(result, 0)
  IN  tag # None /\ tag[1].typeof = "string" /\ tag[1].data = "Domain"

\* the Domain value of searchDomain's first branch
DomainValue(f) ==
  [node |-> HexString(Get(f, "node")), owner |-> HexString(Get(f, "owner")),
   address |-> PropOrUndefined(f, "address"), exp_date |-> NumString(Get(f, "exp_date")),
   snapshot |-> NumString(Get(f, "snapshot")), collateral |-> NumString(Get(f, "collateral"))]

\* the SubDomain value of searchDomain's second branch
SubDomainValue(f) ==
  [node |-> HexString(Get(f, "node")), parent |-> HexString(Get(f, "parent")),
   address |-> PropOrUndefined(f, "address"), snapshot |-> NumString(Get(f, "snapshot"))]

\* searchDomain after scValToNative: the not-found check and the dispatch on
\* the tag; a method called on a missing property is a TypeError
SearchDomainResult(result) ==
  IF Falsy(result) THEN Domain404Error
  ELSE LET fields == Index(result, 1)
       IN  IF IsDomainTag(result)
             THEN IF fields # None /\ AllProps(fields[1], {"node", "owner", "exp_date", "snapshot", "collateral"})
                    THEN Return([type |-> "Domain", value |-> DomainValue(fields[1])])
                    ELSE TypeError
             ELSE IF fields # None /\ AllProps(fields[1], {"node", "parent", "snapshot"})
                    THEN Return([type |-> "SubDomain", value |-> SubDomainValue(fields[1])])
                    ELSE TypeError

\* a variant of GetDomainDataResult that accepts only the tags of DomainStorageValue
GetDomainDataResultChecked(result) ==
  IF Falsy(result) THEN DomainData404Error
  ELSE IF Index(result, 0) # None /\ Index(result, 0)[1].data \in {"Bytes", "Number", "String"}
    THEN Return(result)
    ELSE DomainDataUnsupportedValueType

\* getDomainData after scValToNative
GetDomainDataResult(result) == IF Falsy(result) THEN DomainData404Error ELSE Return(result)

\* getReverseDomain after scValToNative
RenderReverseDomain(result) ==
  LET tld == TextDecode(Get(result, "tld").data)
      sld == TextDecode(Get(result, "sld").data)
      subs == join([i \in 1..Len(Get(result, "subs").data) |-> TextDecode(Get(result, "subs").data[i].data)])
  IN  (IF subs # <<>> THEN subs \o <<".">> ELSE <<>>) \o sld \o <<".">> \o tld

\* a variant of GetReverseDomainResult that raises the not-found error of getDomainData
GetReverseDomainResultAsData(result) ==
  IF Falsy(result) THEN DomainData404Error
  ELSE IF AllProps(result, {"tld", "sld", "subs"}) THEN Return(RenderReverseDomain(result))
  ELSE TypeError

\* getReverseDomain: the not-found check, then the rendering
GetReverseDomainResult(result) ==
  IF Falsy(result) THEN ReverseDomain404Error
  ELSE IF AllProps(result, {"tld", "sld", "subs"}) THEN Return(RenderReverseDomain(result))
  ELSE TypeError

\* a variant of StorageValueScVal whose default arm encodes the payload as a string
StorageValueScValLenient(value) ==
  CASE value.tag = "Bytes" -> Some(scvVec(<<scvSymbol("Bytes"), scvBytes(value.payload.data)>>))
    [] value.tag = "Number" -> Some(scvVec(<<scvSymbol("Number"), scvI128(value.payload.data)>>))
    [] OTHER -> Some(scvVec(<<scvSymbol("String"), scvString(value.payload.data)>>))

\* a variant of StorageValueScVal that encodes a Number as an unsigned 64-bit integer
StorageValueScValU64(value) ==
  CASE value.tag = "Bytes" -> Some(scvVec(<<scvSymbol("Bytes"), scvBytes(value.payload.data)>>))
    [] value.tag = "Number" -> Some(scvVec(<<scvSymbol("Number"), scvU64(value.payload.data)>>))
    [] value.tag = "String" -> Some(scvVec(<<scvSymbol("String"), scvString(value.payload.data)>>))
    [] OTHER -> None

\* the switch of setDomainData on params.value[0]: None is the default arm
StorageValueScVal(value) ==
  CASE value.tag = "Bytes" -> Some(scvVec(<<scvSymbol("Bytes"), scvBytes(value.payload.data)>>))
    [] value.tag = "Number" -> Some(scvVec(<<scvSymbol("Number"), scvI128(value.payload.data)>>))
    [] value.tag = "String" -> Some(scvVec(<<scvSymbol("String"), scvString(value.payload.data)>>))
    [] OTHER -> None

\* params.domain.toLocaleLowerCase().split(".")
ReverseParts(domain) == split(toLocaleLowerCase(domain))

\* a variant of DomainParts that takes the first two labels for sld and tld
DomainPartsFromLeft(parts) ==
  [tld |-> TextEncode(parts[2]),
   sld |-> TextEncode(parts[1]),
   subs |-> [i \in 1..(Len(parts) - 2) |-> TextEncode(parts[i + 2])]]

\* the domainParts object of setReverseDomain
DomainParts(parts) ==
  [tld |-> TextEncode(parts[Len(parts)]),
   sld |-> TextEncode(parts[Len(parts) - 1]),
   subs |-> [i \in 1..(Len(parts) - 2) |-> TextEncode(parts[i])]]

\* nativeToScVal(domainParts, {type: {tld: ["symbol"], sld: ["symbol"], subs: ["symbol"]}}):
\* a map sorted by key, its keys symbols, its byte arrays bytes
DomainPartsScVal(domainParts) ==
  scvMap(<<MapEntry(scvSymbol("sld"), scvBytes(domainParts.sld)),
           MapEntry(scvSymbol("subs"),
                    scvVec([i \in 1..Len(domainParts.subs) |-> scvBytes(domainParts.subs[i])])),
           MapEntry(scvSymbol("tld"), scvBytes(domainParts.tld))>>)

\* a variant of TooFewParts that also rejects two labels
TooFewPartsOrTwo(parts) == Len(parts) <= MinParts

\* the format check of setReverseDomain
TooFewParts(parts) == Len(parts) < MinParts

\* a variant of ReverseDomainScVal that applies the format check to null, as to ""
ReverseDomainScValNullAsText(domain) ==
  LET parts == ReverseParts(IF domain = None THEN <<>> ELSE domain[1])
  IN  IF TooFewParts(parts) THEN None ELSE Some(DomainPartsScVal(DomainParts(parts)))

\* domainScval of setReverseDomain: None when the format check throws
ReverseDomainScVal(domain) ==
  IF domain = None THEN Some(scvVoid)
  ELSE LET parts == ReverseParts(domain[1])
       IN  IF TooFewParts(parts) THEN None ELSE Some(DomainPartsScVal(DomainParts(parts)))

\* a variant of RecordKeySymbol that asks whether a subDomain was passed at all
RecordKeySymbolIfPassed(subDomain) == IF subDomain # None THEN "SubRecord" ELSE "Record"

\* the symbol of searchDomain's record key
RecordKeySymbol(subDomain) == IF Truthy(subDomain) THEN "SubRecord" ELSE "Record"

\* params.subDomain?.toLocaleLowerCase()
OptLower(opt) == IF opt = None THEN None ELSE Some(toLocaleLowerCase(opt[1]))

\* a variant of SearchNode that hashes the domain and the subDomain as given
SearchNodeAsGiven(domain, subDomain) == parseDomain(domain, subDomain, None)

\* a variant of SearchNode that hashes under the domain's own text as the tld
SearchNodeUnderDomain(domain, subDomain) ==
  parseDomain(toLocaleLowerCase(domain), OptLower(subDomain), Some(toLocaleLowerCase(domain)))

\* the node searchDomain hashes
SearchNode(domain, subDomain) == parseDomain(toLocaleLowerCase(domain), OptLower(subDomain), None)

\* record_key of searchDomain
RecordKeyScVal(domain, subDomain) ==
  scvVec(<<scvSymbol(RecordKeySymbol(subDomain)), scvBytes(decodeHex(SearchNode(domain, subDomain)))>>)

\* ------------------------------------------------------------------ state
VARIABLES
  global,   \* the SorobanDomainsSDKParams the instance was constructed with
  pc,       \* where the current call stands: idle, getAccount, simulateTransaction, done
  op,       \* the current call: its name and its arguments
  frame,    \* the locals of the call that live across its awaits
  calls,    \* the RPC calls the current call has issued, in order
  ret,      \* the outcome of the current call
  parked    \* the other calls on the instance: suspended at an await, or ended

vars == <<global, pc, op, frame, calls, ret, parked>>

\* ----------------------------------------------------------------- inputs
Names == StringsUpTo({"a", "A"}, MaxNameLen)
OptNames == {None} \cup {Some(n) : n \in Names}
Tlds == {<<>>, <<"x", "l", "m">>, <<"a">>}
OptTlds == {None} \cup {Some(t) : t \in Tlds}

\* labels for the validator: empty, short, of the longest length allowed and one
\* more, and with a character outside a-z
Run(c, n) == [i \in 1..n |-> c]
ValidatorLabels ==
  {<<>>, <<"a">>, <<"a", "b">>, <<"a", "B">>, <<"a", "1">>, <<"a", "-">>, <<" ", "a">>,
   Run("a", MaxPartLen), Run("a", MaxPartLen + 1)}
ValidatorInputs == {join(ls) : ls \in UNION {[1..k -> ValidatorLabels] : k \in 1..MaxLabels}}

ReverseInputs == {None} \cup {Some(d) : d \in StringsUpTo({"a", "B", "."}, MaxDomainLen)}

NodeInputs == {parseDomain(<<"a">>, None, None), parseDomain(<<"a">>, Some(<<"b">>), None)}
KeyInputs == {"TOML", "WEBSITE"}
StorageValue(tag, payload) == [tag |-> tag, payload |-> payload]
ValueInputs ==
  {StorageValue("Bytes", Buffer(<<1, 2>>)), StorageValue("Number", BigInt(42)),
   StorageValue("Number", BigInt(0 - 7)), StorageValue("String", Str("hello")),
   StorageValue("Float", BigInt(1)), StorageValue("bytes", Buffer(<<1, 2>>)),
   StorageValue("Symbol", Str("hello"))}
Accounts == {"GSOURCE"}
Sequences == {"7"}
Addresses == {"GADDRESS"}

ContractIds(id) == {None, Some(id)}
Configs ==
  [vaultsContractId : ContractIds("CVAULTS"),
   valuesDatabaseContractId : ContractIds("CVALUES"),
   reverseRegistrarContractId : ContractIds("CREVERSE"),
   simulationAccount : {"GSIMULATION"},
   network : {"PUBLIC"},
   defaultFee : {"100"},
   defaultTimeout : {None, Some(30)}]

\* ------------------------------------------------------------ RPC replies
SimError(message) == [kind |-> "error", error |-> message, retval |-> scvVoid, transactionData |-> ""]
SimSuccess(retval) == [kind |-> "success", error |-> "", retval |-> retval, transactionData |-> "data"]
SimRestore(retval) == [kind |-> "restore", error |-> "", retval |-> retval, transactionData |-> "data"]

\* a variant of isSimulationError that takes no response for an error
isSimulationErrorNever(sim) == FALSE

\* rpc.Api.isSimulationError
isSimulationError(sim) == sim.kind = "error"

NodeEntries ==
  <<MapEntry(scvSymbol("address"), scvAddress("GTARGET")),
    MapEntry(scvSymbol("node"), scvBytes(<<171, 18>>)),
    MapEntry(scvSymbol("snapshot"), scvU64(7))>>
DomainEntries ==
  <<MapEntry(scvSymbol("collateral"), scvI128(315)), MapEntry(scvSymbol("exp_date"), scvU64(20)),
    MapEntry(scvSymbol("owner"), scvBytes(<<9>>))>>
SubDomainEntries == <<MapEntry(scvSymbol("parent"), scvBytes(<<205, 0>>))>>
RecordFields ==
  {scvMap(NodeEntries \o DomainEntries), scvMap(NodeEntries \o SubDomainEntries),
   scvMap(NodeEntries \o DomainEntries \o SubDomainEntries)}
RecordTags == {"Domain", "SubDomain", "Other"}

TripleScVal(tld, sld, subs) == DomainPartsScVal([tld |-> TextEncode(tld), sld |-> TextEncode(sld),
                                                subs |-> [i \in 1..Len(subs) |-> TextEncode(subs[i])]])

\* the triples setReverseDomain sends, as the registrar would return them
ReverseTriples ==
  {ReverseDomainScVal(d)[1] : d \in {x \in ReverseInputs : x # None /\ ReverseDomainScVal(x) # None}}

RetVals(name) ==
  CASE name = "searchDomain" ->
         {scvVoid, scvBool(FALSE), scvBool(TRUE), scvString("")}
           \cup {scvVec(<<scvSymbol(tag), f>>) : tag \in RecordTags, f \in RecordFields}
    [] name = "getDomainData" ->
         {scvVoid, scvVec(<<scvSymbol("Bytes"), scvBytes(<<1, 2>>)>>),
          scvVec(<<scvSymbol("Number"), scvI128(42)>>),
          scvVec(<<scvSymbol("String"), scvString("hello")>>),
          scvVec(<<scvSymbol("Other"), scvU64(7)>>)}
    [] name = "getReverseDomain" ->
         {scvVoid, TripleScVal(<<"x", "l", "m">>, <<"a">>, <<>>),
          TripleScVal(<<"x", "l", "m">>, <<"a">>, <<<<"b">>>>),
          TripleScVal(<<"x", "l", "m">>, <<"a">>, <<<<"b">>, <<"a", "b">>>>),
          TripleScVal(<<"x", "l", "m">>, <<"a">>, <<<<>>>>),
          TripleScVal(<<"x", "l", "m">>, <<"a">>, <<<<>>, <<"b">>>>)} \cup ReverseTriples
    [] OTHER -> {scvVoid}

SimResponses(name) ==
  {SimError("HostError: contract trapped"), SimError("budget exceeded")}
    \cup {SimSuccess(r) : r \in RetVals(name)} \cup {SimRestore(r) : r \in RetVals(name)}

\* ----------------------------------------------------------- transactions
NoFrame == [contract |-> "", method |-> "", args |-> <<>>]
\* an RPC call of the log: the function, its argument, and its reply once it has answered
GetAccountCall(address) == [fn |-> "getAccount", arg |-> address, reply |-> None]
SimulateCall(tx) == [fn |-> "simulateTransaction", arg |-> tx, reply |-> None]
Answered(log, reply) == [log EXCEPT ![Len(log)].reply = Some(reply)]

\* what rpc.getAccount resolves to, and a rejected promise
AccountReply(id, sequence) == [kind |-> "account", id |-> id, sequence |-> sequence]
Rejected(message) == [kind |-> "rejected", error |-> message]

\* this.global.defaultTimeout || 0
TimeoutOrZero(t) == IF t # None /\ t[1] # 0 THEN t[1] ELSE 0

\* a variant of BuildTransaction that takes the contract call from a field of the
\* instance, which the last call to start has written
BuildTransactionFromSharedFrame(account, fr) ==
  LET shared == IF parked # <<>> /\ parked[Len(parked)].frame.method # ""
                  THEN parked[Len(parked)].frame ELSE fr
  IN  [source |-> account.id, sequence |-> account.sequence,
       networkPassphrase |-> global.network, fee |-> global.defaultFee,
       timeout |-> TimeoutOrZero(global.defaultTimeout),
       contract |-> shared.contract, method |-> shared.method, args |-> shared.args,
       sorobanData |-> None, signatures |-> <<>>]

\* new TransactionBuilder(account, {networkPassphrase, fee}).setTimeout(..).addOperation(contract.call(..)).build()
BuildTransaction(account, fr) ==
  [source |-> account.id, sequence |-> account.sequence,
   networkPassphrase |-> global.network, fee |-> global.defaultFee,
   timeout |-> TimeoutOrZero(global.defaultTimeout),
   contract |-> fr.contract, method |-> fr.method, args |-> fr.args,
   sorobanData |-> None, signatures |-> <<>>]

\* a variant of assembleTransaction that signs the transaction it assembles
assembleAndSign(tx, sim) ==
  [tx EXCEPT !.sorobanData = Some(sim.transactionData), !.signatures = <<tx.source>>]

\* rpc.assembleTransaction(transaction, sim).build(): the simulation's data attached, unsigned
assembleTransaction(tx, sim) == [tx EXCEPT !.sorobanData = Some(sim.transactionData)]

\* ---------------------------------------------------------------- actions
Init ==
  /\ global \in Configs
  /\ pc = "idle"
  /\ op = [name |-> "none"]
  /\ frame = NoFrame
  /\ calls = <<>>
  /\ ret = Pending
  /\ parked = <<>>

\* a call starts on an instance whose previous call has been taken by its caller
CanCall == pc = "idle"

\* the call ends before its first await
Ends(o, outcome) ==
  /\ op' = o
  /\ frame' = NoFrame
  /\ calls' = <<>>
  /\ pc' = "done"
  /\ ret' = outcome
  /\ UNCHANGED <<global, parked>>

\* the call reaches await rpc.getAccount(account)
AwaitsAccount(o, fr, account) ==
  /\ op' = o
  /\ frame' = fr
  /\ calls' = <<GetAccountCall(account)>>
  /\ pc' = "getAccount"
  /\ ret' = Pending
  /\ UNCHANGED <<global, parked>>

SearchDomain(domain, subDomain) ==
  /\ CanCall
  /\ LET o == [name |-> "searchDomain", domain |-> domain, subDomain |-> subDomain]
     IN  IF ~Provided(global.vaultsContractId)
           THEN Ends(o, Error("Vault's contract id was not provided"))
           ELSE AwaitsAccount(o, [contract |-> global.vaultsContractId[1], method |-> "record",
                                  args |-> <<RecordKeyScVal(domain, subDomain)>>],
                              global.simulationAccount)

GetDomainData(node, key) ==
  /\ CanCall
  /\ LET o == [name |-> "getDomainData", node |-> node, key |-> key]
     IN  IF ~Provided(global.valuesDatabaseContractId)
           THEN Ends(o, Error("KeyValue Database contract id was not provided"))
           ELSE AwaitsAccount(o, [contract |-> global.valuesDatabaseContractId[1], method |-> "get",
                                  args |-> <<scvBytes(decodeHex(node)), scvSymbol(key)>>],
                              global.simulationAccount)

\* a variant of SetDomainData that encodes the value before it looks at the configuration
SetDomainDataEncodesFirst(node, key, value, source) ==
  /\ CanCall
  /\ LET o == [name |-> "setDomainData", node |-> node, key |-> key, value |-> value, source |-> source]
         scv == StorageValueScVal(value)
     IN  IF scv = None
           THEN Ends(o, DomainDataUnsupportedValueType)
           ELSE IF ~Provided(global.valuesDatabaseContractId)
             THEN Ends(o, Error("KeyValue Database contract id was not provided"))
             ELSE AwaitsAccount(o, [contract |-> global.valuesDatabaseContractId[1], method |-> "set",
                                    args |-> <<scvBytes(decodeHex(node)), scvSymbol(key), scv[1]>>],
                                source)

\* SorobanDomainsSDK.setDomainData, to its first await
SetDomainData(node, key, value, source) ==
  /\ CanCall
  /\ LET o == [name |-> "setDomainData", node |-> node, key |-> key, value |-> value, source |-> source]
         scv == StorageValueScVal(value)
     IN  IF ~Provided(global.valuesDatabaseContractId)
           THEN Ends(o, Error("KeyValue Database contract id was not provided"))
           ELSE IF scv = None
             THEN Ends(o, DomainDataUnsupportedValueType)
             ELSE AwaitsAccount(o, [contract |-> global.valuesDatabaseContractId[1], method |-> "set",
                                    args |-> <<scvBytes(decodeHex(node)), scvSymbol(key), scv[1]>>],
                                source)

RemoveDomainData(node, key, source) ==
  /\ CanCall
  /\ LET o == [name |-> "removeDomainData", node |-> node, key |-> key, source |-> source]
     IN  IF ~Provided(global.valuesDatabaseContractId)
           THEN Ends(o, Error("KeyValue Database contract id was not provided"))
           ELSE AwaitsAccount(o, [contract |-> global.valuesDatabaseContractId[1], method |-> "remove",
                                  args |-> <<scvBytes(decodeHex(node)), scvSymbol(key)>>],
                              source)

SetReverseDomain(address, domain, source) ==
  /\ CanCall
  /\ LET o == [name |-> "setReverseDomain", address |-> address, domain |-> domain, source |-> source]
         scv == ReverseDomainScVal(domain)
     IN  IF ~Provided(global.reverseRegistrarContractId)
           THEN Ends(o, Error("Reverse Registrar contract id was not provided"))
           ELSE IF scv = None
             THEN Ends(o, Error("Invalid domain format"))
             ELSE AwaitsAccount(o, [contract |-> global.reverseRegistrarContractId[1], method |-> "set",
                                    args |-> <<scvAddress(address), scv[1]>>],
                                source)

GetReverseDomain(address) ==
  /\ CanCall
  /\ LET o == [name |-> "getReverseDomain", address |-> address]
     IN  IF ~Provided(global.reverseRegistrarContractId)
           THEN Ends(o, Error("Reverse Registrar contract id was not provided"))
           ELSE AwaitsAccount(o, [contract |-> global.reverseRegistrarContractId[1], method |-> "get",
                                  args |-> <<scvAddress(address)>>],
                              global.simulationAccount)

\* rpc.getAccount resolves: the transaction is built and simulateTransaction is awaited
GetAccountReturns(sequence) ==
  /\ pc = "getAccount"
  /\ LET account == AccountReply(calls[Len(calls)].arg, sequence)
     IN  calls' = Append(Answered(calls, account), SimulateCall(BuildTransaction(account, frame)))
  /\ pc' = "simulateTransaction"
  /\ UNCHANGED <<global, op, frame, ret, parked>>

\* a variant of GetAccountThrows that goes on to simulate on the account asked for
GetAccountThrowsGoesOn ==
  /\ pc = "getAccount"
  /\ LET account == AccountReply(calls[Len(calls)].arg, "0")
     IN  calls' = Append(Answered(calls, Rejected("Account not found")),
                         SimulateCall(BuildTransaction(account, frame)))
  /\ pc' = "simulateTransaction"
  /\ UNCHANGED <<global, op, frame, ret, parked>>

\* rpc.getAccount rejects: the error propagates to the caller
GetAccountThrows ==
  /\ pc = "getAccount"
  /\ pc' = "done"
  /\ ret' = Error("Account not found")
  /\ calls' = Answered(calls, Rejected("Account not found"))
  /\ UNCHANGED <<global, op, frame, parked>>

\* what the call does with a simulation that is no error
Completes(name, tx, sim) ==
  CASE name = "searchDomain" -> SearchDomainResult(scValToNative(sim.retval))
    [] name = "getDomainData" -> GetDomainDataResult(scValToNative(sim.retval))
    [] name = "getReverseDomain" -> GetReverseDomainResult(scValToNative(sim.retval))
    [] OTHER -> Return([tx |-> assembleTransaction(tx, sim), sim |-> sim])

\* rpc.simulateTransaction resolves
SimulateReturns(sim) ==
  /\ pc = "simulateTransaction"
  /\ pc' = "done"
  /\ ret' = IF isSimulationError(sim) THEN Error(sim.error)
            ELSE Completes(op.name, calls[Len(calls)].arg, sim)
  /\ calls' = Answered(calls, sim)
  /\ UNCHANGED <<global, op, frame, parked>>

\* rpc.simulateTransaction rejects
SimulateThrows ==
  /\ pc = "simulateTransaction"
  /\ pc' = "done"
  /\ ret' = Error("Network error")
  /\ calls' = Answered(calls, Rejected("Network error"))
  /\ UNCHANGED <<global, op, frame, parked>>

\* the caller takes the outcome of the call (its promise has settled)
Settle ==
  /\ pc = "done"
  /\ pc' = "idle"
  /\ op' = [name |-> "none"]
  /\ frame' = NoFrame
  /\ calls' = <<>>
  /\ ret' = Pending
  /\ UNCHANGED <<global, parked>>

Next ==
  \/ CanCall /\ \E d \in Names, s \in OptNames : SearchDomain(d, s)
  \/ CanCall /\ \E n \in NodeInputs, k \in KeyInputs : GetDomainData(n, k)
  \/ CanCall /\ \E n \in NodeInputs, k \in KeyInputs, v \in ValueInputs, a \in Accounts : SetDomainData(n, k, v, a)
  \/ CanCall /\ \E n \in NodeInputs, k \in KeyInputs, a \in Accounts : RemoveDomainData(n, k, a)
  \/ CanCall /\ \E x \in Addresses, d \in ReverseInputs, a \in Accounts : SetReverseDomain(x, d, a)
  \/ CanCall /\ \E x \in Addresses : GetReverseDomain(x)
  \/ \E q \in Sequences : GetAccountReturns(q)
  \/ GetAccountThrows
  \/ pc = "simulateTransaction" /\ \E sim \in SimResponses(op.name) : SimulateReturns(sim)
  \/ SimulateThrows
  \/ Settle

Spec == Init /\ [][Next]_vars

\* ------------------------------------------------- the static helpers alone
StaticInit ==
  /\ global \in {c \in Configs : c.defaultTimeout = None /\ \A k \in {"vaultsContractId",
         "valuesDatabaseContractId", "reverseRegistrarContractId"} : c[k] = None}
  /\ pc = "idle"
  /\ op = [name |-> "none"]
  /\ frame = NoFrame
  /\ calls = <<>>
  /\ ret = Pending
  /\ parked = <<>>

\* SorobanDomainsSDK.parseDomain(params)
ParseDomain(domain, subDomain, tld) ==
  /\ CanCall
  /\ LET o == [name |-> "parseDomain", domain |-> domain, subDomain |-> subDomain, tld |-> tld]
     IN  Ends(o, Return(parseDomain(domain, subDomain, tld)))

\* SorobanDomainsSDK.isValidDomain(domain)
IsValidDomain(domain) ==
  /\ CanCall
  /\ LET o == [name |-> "isValidDomain", domain |-> domain]
     IN  Ends(o, Return(isValidDomain(domain)))

StaticNext ==
  \/ CanCall /\ \E d \in Names, s \in OptNames, t \in OptTlds : ParseDomain(d, s, t)
  \/ CanCall /\ \E d \in ValidatorInputs : IsValidDomain(d)
  \/ Settle

StaticSpec == StaticInit /\ [][StaticNext]_vars

\* ------------------------------------------------------------------ claims
Xlm == <<"x", "l", "m">>

\* H and || of the specification's node(tld, domain) = H( H(tld) || H(domain) )
NodeOf(tld, domain) == hashBytes(concat(hashText(tld), hashText(domain)))

\* subnode(node, subDomain) = H( H(node) || H(subDomain) )
SubNodeOf(node, subDomain) == hashBytes(concat(hashBytes(node), hashText(subDomain)))

ParseDone == pc = "done" /\ op.name = "parseDomain"

\* C1 as stated: parseDomain called without a subDomain returns the hex encoding
\* of H(H(tld) || H(domain)), tld being "xlm" when no tld is supplied.  It fails
\* for a supplied tld that is the empty text.
C1_AsStated ==
  (ParseDone /\ op.subDomain = None) =>
     ret.value = encodeHex(NodeOf(IF op.tld = None THEN Xlm ELSE op.tld[1], op.domain))

\* C1: parseDomain called without a subDomain returns the hex encoding of
\* H(H(tld) || H(domain)), tld digest first, where tld is "xlm" when no tld is
\* supplied or the supplied tld is the empty text.
C1_NodeOfTldAndDomain ==
  (ParseDone /\ op.subDomain = None) =>
     ret.value = encodeHex(NodeOf(IF op.tld = None \/ op.tld = Some(<<>>) THEN Xlm ELSE op.tld[1],
                                  op.domain))

C1_Witness ==
  /\ ParseDone /\ op.subDomain = None /\ op.tld = Some(<<"a">>) /\ op.domain = <<"A", "a">>
  /\ ret.value = encodeHex(NodeOf(<<"a">>, <<"A", "a">>))

\* C2 as stated: for every given subDomain parseDomain returns the hex encoding
\* of H(H(node) || H(subDomain)), node being what parseDomain computes for the
\* same tld and domain without a subDomain.  It fails for the empty subDomain.
C2_AsStated ==
  (ParseDone /\ op.subDomain # None) =>
     ret.value = encodeHex(SubNodeOf(decodeHex(parseDomain(op.domain, None, op.tld)), op.subDomain[1]))

\* C2: for every non-empty subDomain parseDomain returns the hex encoding of
\* H(H(node) || H(subDomain)), where node is the digest parseDomain computes for
\* the same tld and domain without a subDomain.
C2_SubNodeOfParentNode ==
  (ParseDone /\ op.subDomain # None /\ op.subDomain # Some(<<>>)) =>
     ret.value = encodeHex(SubNodeOf(decodeHex(parseDomain(op.domain, None, op.tld)), op.subDomain[1]))

C2_Witness ==
  /\ ParseDone /\ op.subDomain = Some(<<"a">>) /\ op.tld = None /\ op.domain = <<"A">>
  /\ ret.value = encodeHex(SubNodeOf(NodeOf(Xlm, <<"A">>), <<"a">>))

\* the labels of a text are lowercase letters only, none of them empty
LettersOnly(labels) ==
  \A i \in 1..Len(labels) :
    Len(labels[i]) >= 1 /\ \A j \in 1..Len(labels[i]) : labels[i][j] \in LowerChars

\* what C3 says isValidDomain accepts
WellFormedDomain(d) ==
  LET labels == split(d)
  IN  /\ LettersOnly(labels)
      /\ Len(labels) >= 2
      /\ Len(labels[Len(labels)]) >= 2
      /\ Len(labels) <= 3
      /\ \A i \in 1..Len(labels) : Len(labels[i]) <= 15

\* C3: isValidDomain(d) is true exactly when d is made of lowercase letters and
\* single dots with no empty label, has 2 or 3 labels, a last label of at least
\* 2 letters and no label longer than 15 characters.
C3_ValidExactlyWhenWellFormed ==
  (pc = "done" /\ op.name = "isValidDomain") => (ret.value <=> WellFormedDomain(op.domain))

C3_Witness ==
  /\ pc = "done" /\ op.name = "isValidDomain" /\ ret.value = TRUE
  /\ op.domain = join(<<Run("a", 15), <<"a">>, <<"a", "b">>>>)

\* the reply of the current call's simulateTransaction, once it has answered
SimAnswered ==
  /\ Len(calls) = 2
  /\ calls[2].reply # None
  /\ calls[2].reply[1].kind \in {"success", "restore"}
SimReply == calls[2].reply[1]

\* a wire value that decodes to a falsy native value
EmptyRetVal(scv) ==
  \/ scv.arm = "scvVoid"
  \/ scv.arm = "scvBool" /\ scv.body = FALSE
  \/ scv.arm \in {"scvString", "scvSymbol"} /\ scv.body = ""
  \/ scv.arm \in {"scvU64", "scvI128"} /\ scv.body = 0

\* C4: in searchDomain, whenever the simulation succeeds and the decoded reply
\* is empty (any falsy value), the call raises Domain404Error and returns no
\* Record.
C4_EmptyReplyRaisesDomain404 ==
  (pc = "done" /\ op.name = "searchDomain" /\ SimAnswered /\ EmptyRetVal(SimReply.retval)) =>
     /\ ret.kind = "throw"
     /\ ret.value.name = "Domain404Error"
     /\ ret.value.message = "Domain doesn't exist"

C4_Witness ==
  /\ pc = "done" /\ op.name = "searchDomain" /\ SimAnswered
  /\ SimReply.retval.arm = "scvBool" /\ SimReply.retval.body = FALSE
  /\ ret.kind = "throw" /\ ret.value.name = "Domain404Error"

\* a reply [tag, fields] that is not empty
TaggedReply(scv) == scv.arm = "scvVec" /\ Len(scv.body) = 2 /\ scv.body[1].arm = "scvSymbol"

\* the names of the fields of a returned Record's value
DomainFieldNames == {"node", "owner", "address", "exp_date", "snapshot", "collateral"}
SubDomainFieldNames == {"node", "parent", "address", "snapshot"}

\* the keys of a wire map
MapKeys(scv) == {scv.body[i].key.body : i \in 1..Len(scv.body)}

\* C5: for every non-empty reply [tag, fields] of searchDomain the returned
\* Record has type Domain, with the fields of a Domain, exactly when tag is
\* "Domain", and type SubDomain, with the fields of a SubDomain, for every other
\* tag, whether or not the caller passed a subDomain; a Record is returned
\* whenever fields carries every property a Record is built from.
C5_RecordTypeFollowsTag ==
  (pc = "done" /\ op.name = "searchDomain" /\ SimAnswered /\ TaggedReply(SimReply.retval)) =>
     /\ ret.kind = "return" =>
          /\ ret.value.type = (IF SimReply.retval.body[1].body = "Domain" THEN "Domain" ELSE "SubDomain")
          /\ DOMAIN ret.value.value =
               (IF SimReply.retval.body[1].body = "Domain" THEN DomainFieldNames ELSE SubDomainFieldNames)
     /\ (DomainFieldNames \cup SubDomainFieldNames) \subseteq MapKeys(SimReply.retval.body[2]) =>
          ret.kind = "return"

C5_Witness ==
  /\ pc = "done" /\ op.name = "searchDomain" /\ SimAnswered /\ TaggedReply(SimReply.retval)
  /\ SimReply.retval.body[1].body = "Other"
  /\ op.subDomain = None
  /\ ret.kind = "return" /\ ret.value.type = "SubDomain"

SupportedTags == {"Bytes", "Number", "String"}

\* C6: in setDomainData with the key-value contract id configured, a value
\* whose tag is none of "Bytes", "Number", "String" makes the call raise
\* DomainDataUnsupportedValueType with no RPC call issued.
C6_UnsupportedTagFailsBeforeRpc ==
  (op.name = "setDomainData" /\ Provided(global.valuesDatabaseContractId)
     /\ op.value.tag \notin SupportedTags) =>
     /\ pc = "done"
     /\ calls = <<>>
     /\ ret.kind = "throw"
     /\ ret.value.name = "DomainDataUnsupportedValueType"

C6_Witness ==
  /\ op.name = "setDomainData" /\ Provided(global.valuesDatabaseContractId)
  /\ op.value.tag = "Float"
  /\ pc = "done" /\ calls = <<>> /\ ret.value.name = "DomainDataUnsupportedValueType"

\* the wire type C7 gives each variant
WireArmOf(tag) ==
  CASE tag = "Bytes" -> "scvBytes" [] tag = "Number" -> "scvI128" [] tag = "String" -> "scvString"

\* C7: setDomainData encodes a storage value as the pair of the symbol equal to
\* the value's own tag and the payload in the matching wire type (Bytes: bytes,
\* Number: 128-bit signed integer, String: string); this is the third argument
\* of the "set" call it simulates.
C7_ValueEncodedByItsTag ==
  (op.name = "setDomainData" /\ calls # <<>>) =>
     LET encoded == frame.args[3]
     IN  /\ op.value.tag \in SupportedTags
         /\ encoded.arm = "scvVec" /\ Len(encoded.body) = 2
         /\ encoded.body[1].arm = "scvSymbol" /\ encoded.body[1].body = op.value.tag
         /\ encoded.body[2].arm = WireArmOf(op.value.tag)
         /\ encoded.body[2].body = op.value.payload.data
         /\ Len(calls) = 2 =>
              /\ calls[2].arg.method = "set"
              /\ Len(calls[2].arg.args) = 3
              /\ calls[2].arg.args[3].arm = "scvVec"
              /\ calls[2].arg.args[3].body[1].body = op.value.tag
              /\ calls[2].arg.args[3].body[2].arm = WireArmOf(op.value.tag)
              /\ calls[2].arg.args[3].body[2].body = op.value.payload.data

C7_Witness ==
  /\ op.name = "setDomainData" /\ pc = "simulateTransaction"
  /\ op.value.tag = "Number" /\ op.value.payload.data = 0 - 7
  /\ calls[2].arg.args[3].body[2].arm = "scvI128"
  /\ calls[2].arg.args[3].body[2].body = 0 - 7

\* a text with at least 2 dot-separated labels is one that holds a dot
HasDot(d) == \E i \in 1..Len(d) : d[i] = "."
NoDot(d) == ~HasDot(d)

\* the value of key k in a wire map
MapValue(scv, k) == scv.body[CHOOSE i \in 1..Len(scv.body) : scv.body[i].key.body = k].val

\* the labels of a wire triple as texts: subs, then sld, then tld
TripleLabels(scv) ==
  [i \in 1..Len(MapValue(scv, "subs").body) |-> TextDecode(MapValue(scv, "subs").body[i].body)]
    \o <<TextDecode(MapValue(scv, "sld").body), TextDecode(MapValue(scv, "tld").body)>>

ReverseSet == op.name = "setReverseDomain" /\ Provided(global.reverseRegistrarContractId)

\* C8: for every non-null domain with at least 2 dot-separated labels,
\* setReverseDomain builds the triple whose tld is the last label of the
\* lowercased text, whose sld is the second-to-last and whose subs are the
\* remaining labels in their order: the labels subs, sld, tld are free of dots
\* and joined by dots they spell the lowercased domain.
C8_TripleFromLabels ==
  (ReverseSet /\ op.domain # None /\ HasDot(op.domain[1])) =>
     LET triple == frame.args[2]
         labels == TripleLabels(triple)
         lowered == toLocaleLowerCase(op.domain[1])
     IN  /\ triple.arm = "scvMap"
         /\ MapKeys(triple) = {"tld", "sld", "subs"}
         /\ \A i \in 1..Len(labels) : NoDot(labels[i])
         /\ join(labels) = lowered
         /\ labels = split(lowered)
         /\ Len(calls) = 2 => calls[2].arg.args[2] = triple

C8_Witness ==
  /\ ReverseSet /\ op.domain = Some(<<"B", ".", "a", ".", "a">>)
  /\ pc = "simulateTransaction"
  /\ TripleLabels(calls[2].arg.args[2]) = <<<<"b">>, <<"a">>, <<"a">>>>

\* C9: in setReverseDomain with the reverse-registrar contract id configured, a
\* non-null domain with fewer than 2 dot-separated labels raises the
\* invalid-domain-format error with no RPC call issued, and every non-null
\* domain with at least 2 labels passes the check and goes on to getAccount.
C9_FormatCheckBeforeRpc ==
  (ReverseSet /\ op.domain # None) =>
     IF NoDot(op.domain[1])
       THEN /\ pc = "done"
            /\ calls = <<>>
            /\ ret.kind = "throw"
            /\ ret.value.name = "Error"
            /\ ret.value.message = "Invalid domain format"
       ELSE /\ calls # <<>>
            /\ calls[1].fn = "getAccount"
            /\ ~(ret.kind = "throw" /\ ret.value.message = "Invalid domain format")

C9_Witness ==
  /\ ReverseSet /\ op.domain = Some(<<>>)
  /\ pc = "done" /\ calls = <<>> /\ ret.value.message = "Invalid domain format"

\* C10: when setReverseDomain is called with domain == null the domain argument
\* of the contract call is the void marker, no format check is applied, and the
\* call goes on to getAccount and, once the account is there, to
\* simulateTransaction.
C10_NullDomainIsVoid ==
  (ReverseSet /\ op.domain = None) =>
     /\ frame.method = "set"
     /\ Len(frame.args) = 2
     /\ frame.args[2].arm = "scvVoid"
     /\ calls # <<>>
     /\ calls[1].fn = "getAccount"
     /\ ~(ret.kind = "throw" /\ ret.value.message = "Invalid domain format")
     /\ (calls[1].reply # None /\ calls[1].reply[1].kind = "account") =>
          /\ Len(calls) = 2
          /\ calls[2].fn = "simulateTransaction"
          /\ calls[2].arg.method = "set"
          /\ calls[2].arg.args[2].arm = "scvVoid"

C10_Witness ==
  /\ ReverseSet /\ op.domain = None
  /\ pc = "done" /\ ret.kind = "return"
  /\ calls[2].fn = "simulateTransaction" /\ calls[2].arg.args[2].arm = "scvVoid"

\* the texts of the subs, sld and tld of a wire triple
TripleSubs(scv) ==
  [i \in 1..Len(MapValue(scv, "subs").body) |-> TextDecode(MapValue(scv, "subs").body[i].body)]
TripleSld(scv) == TextDecode(MapValue(scv, "sld").body)
TripleTld(scv) == TextDecode(MapValue(scv, "tld").body)

\* sub1.sub2...sld.tld, the leading segment and its dot left out exactly when
\* there is no sub
Dotted(subs, sld, tld) ==
  IF subs = <<>> THEN sld \o <<".">> \o tld
  ELSE join(subs) \o <<".">> \o sld \o <<".">> \o tld

ReverseGot ==
  /\ pc = "done" /\ op.name = "getReverseDomain" /\ SimAnswered
  /\ SimReply.retval.arm = "scvMap"

\* C11 as stated: for every non-empty reply (tld, sld, subs) getReverseDomain
\* returns the labels of subs joined by ".", then ".", sld, ".", tld, the subs
\* segment and its dot omitted exactly when subs is empty.  It fails for a
\* reply whose subs is the one empty label: that label and its dot are lost.
C11_AsStated ==
  ReverseGot =>
     /\ ret.kind = "return"
     /\ ret.value = Dotted(TripleSubs(SimReply.retval), TripleSld(SimReply.retval),
                           TripleTld(SimReply.retval))

\* what does hold of the rendering: it is as C11 states unless subs is the one
\* empty label
C11_RenderedUnlessOneEmptySub ==
  (ReverseGot /\ TripleSubs(SimReply.retval) # <<<<>>>>) =>
     /\ ret.kind = "return"
     /\ ret.value = Dotted(TripleSubs(SimReply.retval), TripleSld(SimReply.retval),
                           TripleTld(SimReply.retval))

\* the domains setReverseDomain takes whose triple is the reply at hand
SentAs(scv) ==
  {d \in ReverseInputs : d # None /\ HasDot(d[1]) /\ ReverseDomainScVal(d) = Some(scv)}

\* C12 as stated: for every domain with at least 2 dot-separated labels,
\* getReverseDomain renders the triple setReverseDomain builds from it as the
\* lowercased domain.  It fails for a domain of three labels whose first label
\* is empty.
C12_AsStated ==
  ReverseGot =>
     \A d \in SentAs(SimReply.retval) :
        ret.kind = "return" /\ ret.value = toLocaleLowerCase(d[1])

\* what does hold of the round trip: it gives the lowercased domain unless the
\* domain is an empty label followed by exactly two more
C12_RoundTripUnlessEmptyFirstOfThree ==
  ReverseGot =>
     \A d \in SentAs(SimReply.retval) :
        (Len(split(d[1])) = 3 /\ split(d[1])[1] = <<>>)
          \/ (ret.kind = "return" /\ ret.value = toLocaleLowerCase(d[1]))

DataGot == pc = "done" /\ op.name = "getDomainData" /\ SimAnswered

\* C13: for every non-empty reply getDomainData returns the decoded reply as it
\* was received: for a reply [tag, payload] the first element is the tag as
\* sent and the second the decoded payload, whatever the tag is.
C13_ReplyReturnedAsReceived ==
  (DataGot /\ ~EmptyRetVal(SimReply.retval)) =>
     /\ ret.kind = "return"
     /\ ret.value = scValToNative(SimReply.retval)
     /\ TaggedReply(SimReply.retval) =>
          /\ Len(ret.value.data) = 2
          /\ ret.value.data[1] = Str(SimReply.retval.body[1].body)
          /\ ret.value.data[2] = scValToNative(SimReply.retval.body[2])

C13_Witness ==
  /\ DataGot /\ TaggedReply(SimReply.retval) /\ SimReply.retval.body[1].body = "Other"
  /\ ret.kind = "return" /\ ret.value.data[1] = Str("Other") /\ ret.value.data[2] = BigInt(7)

\* the operations that decode a reply, and the not-found error of each
Reads == {"searchDomain", "getDomainData", "getReverseDomain"}
NotFoundOf(name) ==
  CASE name = "searchDomain" -> "Domain404Error"
    [] name = "getDomainData" -> "DomainData404Error"
    [] name = "getReverseDomain" -> "ReverseDomain404Error"
NotFoundNames == {NotFoundOf(name) : name \in Reads}

\* C14: an empty reply raises the not-found error of the call site, named as
\* its class: Domain404Error in searchDomain, DomainData404Error in
\* getDomainData, ReverseDomain404Error in getReverseDomain; the three names
\* are pairwise distinct and no operation raises the not-found error of another.
C14_NotFoundByCallSite ==
  /\ (pc = "done" /\ op.name \in Reads /\ SimAnswered /\ EmptyRetVal(SimReply.retval)) =>
        /\ ret.kind = "throw"
        /\ ret.value.name = NotFoundOf(op.name)
  /\ (ret.kind = "throw" /\ ret.value.name \in NotFoundNames) =>
        /\ op.name \in Reads
        /\ ret.value.name = NotFoundOf(op.name)
  /\ Domain404Error.value.name = "Domain404Error"
  /\ DomainData404Error.value.name = "DomainData404Error"
  /\ ReverseDomain404Error.value.name = "ReverseDomain404Error"
  /\ Cardinality(NotFoundNames) = 3

C14_Witness ==
  /\ pc = "done" /\ op.name = "getReverseDomain" /\ SimAnswered
  /\ SimReply.retval.arm = "scvVoid"
  /\ ret.kind = "throw" /\ ret.value.name = "ReverseDomain404Error"

\* the six operations of an instance, the contract id each needs and the
\* message of its configuration error
Operations ==
  {"searchDomain", "getDomainData", "setDomainData", "removeDomainData", "setReverseDomain",
   "getReverseDomain"}
NeededId(name) ==
  CASE name = "searchDomain" -> global.vaultsContractId
    [] name \in {"getDomainData", "setDomainData", "removeDomainData"} -> global.valuesDatabaseContractId
    [] name \in {"setReverseDomain", "getReverseDomain"} -> global.reverseRegistrarContractId
ConfigurationMessage(name) ==
  CASE name = "searchDomain" -> "Vault's contract id was not provided"
    [] name \in {"getDomainData", "setDomainData", "removeDomainData"} ->
         "KeyValue Database contract id was not provided"
    [] name \in {"setReverseDomain", "getReverseDomain"} ->
         "Reverse Registrar contract id was not provided"

\* C15: in each of the six operations, when the contract id the operation needs
\* is not configured, the call ends with the configuration error, with no value
\* encoded into a contract call and no RPC call issued, whatever its other
\* arguments are (an unsupported value tag or a malformed domain included).
C15_ConfigurationCheckedFirst ==
  (op.name \in Operations /\ ~Provided(NeededId(op.name))) =>
     /\ pc = "done"
     /\ calls = <<>>
     /\ frame = NoFrame
     /\ ret.kind = "throw"
     /\ ret.value.name = "Error"
     /\ ret.value.message = ConfigurationMessage(op.name)

C15_Witness ==
  /\ op.name = "setDomainData" /\ ~Provided(global.valuesDatabaseContractId)
  /\ op.value.tag = "Float"
  /\ pc = "done" /\ calls = <<>>
  /\ ret.value.message = "KeyValue Database contract id was not provided"

\* the calls of simulateTransaction in the log
SimulateCalls == {i \in 1..Len(calls) : calls[i].fn = "simulateTransaction"}

SimFailed ==
  /\ pc = "done" /\ Len(calls) = 2 /\ calls[2].reply # None
  /\ calls[2].reply[1].kind = "error"

\* C16: in every operation, when simulateTransaction reports a simulation error
\* the call raises an Error whose message is the RPC's error message, has
\* called simulateTransaction once, raises no not-found error and returns no
\* assembled transaction.
C16_SimulationErrorSurfaced ==
  SimFailed =>
     /\ ret.kind = "throw"
     /\ ret.value.name = "Error"
     /\ ret.value.message = calls[2].reply[1].error
     /\ Cardinality(SimulateCalls) = 1

C16_Witness ==
  /\ SimFailed /\ op.name = "setReverseDomain"
  /\ calls[2].reply[1].error = "budget exceeded"
  /\ ret.kind = "throw" /\ ret.value.message = "budget exceeded"

\* C17: searchDomain lowercases the domain and the subDomain before hashing:
\* the record key it sends for (D, S) is the one it sends for (lowercase(D),
\* lowercase(S)), its node bytes being parseDomain of the lowercased names;
\* parseDomain itself does not normalise: when D or S holds an uppercase letter,
\* parseDomain of the names as given is another node than the one sent.
C17_LowercasedBeforeHashing ==
  (op.name = "searchDomain" /\ Provided(global.vaultsContractId)) =>
     LET lowD == toLocaleLowerCase(op.domain)
         lowS == OptLower(op.subDomain)
         sent == frame.args[1]
     IN  /\ sent = RecordKeyScVal(lowD, lowS)
         /\ sent.body[2] = scvBytes(decodeHex(parseDomain(lowD, lowS, None)))
         /\ (op.domain # lowD \/ (op.subDomain # lowS /\ HasSubDomain(op.subDomain))) =>
               decodeHex(parseDomain(op.domain, op.subDomain, None)) # sent.body[2].body
         /\ Len(calls) = 2 => calls[2].arg.args[1] = sent

C17_Witness ==
  /\ op.name = "searchDomain" /\ op.domain = <<"A">> /\ op.subDomain = Some(<<"a", "A">>)
  /\ pc = "simulateTransaction"
  /\ calls[2].arg.args[1].body[2].body = decodeHex(parseDomain(<<"a">>, Some(<<"a", "a">>), None))
  /\ calls[2].arg.args[1].body[2].body # decodeHex(parseDomain(<<"A">>, Some(<<"a", "A">>), None))

\* the operations that return a transaction
Writes == {"setDomainData", "removeDomainData", "setReverseDomain"}

\* C18: no operation signs, submits or broadcasts a transaction: the only RPC
\* calls in the log are getAccount and simulateTransaction, and a successful
\* setDomainData, removeDomainData or setReverseDomain returns the simulated
\* transaction with the simulation's data attached and no signature, together
\* with the simulation result.
C18_NothingSignedOrSent ==
  /\ \A i \in 1..Len(calls) : calls[i].fn \in {"getAccount", "simulateTransaction"}
  /\ Len(calls) <= 2
  /\ (pc = "done" /\ op.name \in Writes /\ ret.kind = "return") =>
        /\ SimAnswered
        /\ ret.value.sim = SimReply
        /\ ret.value.tx.signatures = <<>>
        /\ ret.value.tx.sorobanData = Some(SimReply.transactionData)
        /\ [ret.value.tx EXCEPT !.sorobanData = None] = calls[2].arg
        /\ calls[2].arg.source = op.source

C18_Witness ==
  /\ pc = "done" /\ op.name = "removeDomainData" /\ ret.kind = "return"
  /\ ret.value.tx.signatures = <<>> /\ ret.value.tx.method = "remove"
  /\ ret.value.sim.kind = "restore"

\* ------------------------------------ concurrent calls on one instance
\* The calls of several callers on one instance.  A call runs from one await to
\* the next without interruption; while it waits for an RPC reply another call
\* may start or go on.  The running call is in pc, op, frame, calls and ret,
\* the others are in parked.
MaxCallers == 2

\* the running call as a record
Running == [pc |-> pc, op |-> op, frame |-> frame, calls |-> calls, ret |-> ret]

ConcurrentInit ==
  /\ global \in {c \in Configs : c.defaultTimeout = None /\ \A k \in {"vaultsContractId",
         "valuesDatabaseContractId", "reverseRegistrarContractId"} : c[k] # None}
  /\ pc = "idle"
  /\ op = [name |-> "none"]
  /\ frame = NoFrame
  /\ calls = <<>>
  /\ ret = Pending
  /\ parked = <<>>

\* the running call waits for a reply, or has ended: another caller gets the instance
Suspend ==
  /\ pc \in {"getAccount", "simulateTransaction", "done"}
  /\ Len(parked) < MaxCallers - 1
  /\ parked' = Append(parked, Running)
  /\ pc' = "idle"
  /\ op' = [name |-> "none"]
  /\ frame' = NoFrame
  /\ calls' = <<>>
  /\ ret' = Pending
  /\ UNCHANGED global

\* a suspended call goes on when the running one waits, has ended or is none
Resume(i) ==
  /\ pc \in {"idle", "getAccount", "simulateTransaction", "done"}
  /\ parked[i].pc # "done"
  /\ pc' = parked[i].pc
  /\ op' = parked[i].op
  /\ frame' = parked[i].frame
  /\ calls' = parked[i].calls
  /\ ret' = parked[i].ret
  /\ parked' = IF pc = "idle"
                 THEN [j \in 1..(Len(parked) - 1) |-> IF j < i THEN parked[j] ELSE parked[j + 1]]
                 ELSE [parked EXCEPT ![i] = Running]
  /\ UNCHANGED global

ConcurrentNodes == {parseDomain(<<"a">>, None, None)}
ConcurrentValues == {StorageValue("Number", BigInt(42)), StorageValue("Float", BigInt(1))}
ConcurrentDomains == {None, Some(<<"a", ".", "a">>)}
ConcurrentRetVals(name) ==
  CASE name = "searchDomain" ->
         {scvVoid, scvVec(<<scvSymbol("Domain"), scvMap(NodeEntries \o DomainEntries)>>)}
    [] name = "getDomainData" -> {scvVoid, scvVec(<<scvSymbol("Number"), scvI128(42)>>)}
    [] name = "getReverseDomain" -> {scvVoid, TripleScVal(<<"x", "l", "m">>, <<"a">>, <<>>)}
    [] OTHER -> {scvVoid}
ConcurrentSims(name) ==
  {SimError("HostError: contract trapped")} \cup {SimSuccess(r) : r \in ConcurrentRetVals(name)}

ConcurrentNext ==
  \/ CanCall /\ \E d \in {<<"a">>, <<"A">>} : SearchDomain(d, None)
  \/ CanCall /\ \E n \in ConcurrentNodes : GetDomainData(n, "TOML")
  \/ CanCall /\ \E n \in ConcurrentNodes, v \in ConcurrentValues, a \in Accounts : SetDomainData(n, "TOML", v, a)
  \/ CanCall /\ \E n \in ConcurrentNodes, a \in Accounts : RemoveDomainData(n, "TOML", a)
  \/ CanCall /\ \E x \in Addresses, d \in ConcurrentDomains, a \in Accounts : SetReverseDomain(x, d, a)
  \/ CanCall /\ \E x \in Addresses : GetReverseDomain(x)
  \/ \E q \in Sequences : GetAccountReturns(q)
  \/ GetAccountThrows
  \/ pc = "simulateTransaction" /\ \E sim \in ConcurrentSims(op.name) : SimulateReturns(sim)
  \/ SimulateThrows
  \/ Suspend
  \/ \E i \in 1..Len(parked) : Resume(i)

ConcurrentSpec == ConcurrentInit /\ [][ConcurrentNext]_vars

\* every call on the instance, the running one first
AllCalls == <<Running>> \o parked

\* the account an operation simulates with, and the contract method it calls
SourceOf(o) == IF o.name \in Writes THEN o.source ELSE global.simulationAccount
MethodOf(name) ==
  CASE name = "searchDomain" -> "record"
    [] name \in {"getDomainData", "getReverseDomain"} -> "get"
    [] name \in {"setDomainData", "setReverseDomain"} -> "set"
    [] name = "removeDomainData" -> "remove"

\* the replies a call has had to its own RPC calls
Replies(c) == [i \in 1..Len(c.calls) |-> c.calls[i].reply]

\* what a call has sent and returned follows from its own arguments, the
\* configuration and the replies to its own calls
OwnOutcome(c) ==
  c.op.name \in Operations =>
     /\ Len(c.calls) >= 1 =>
          /\ c.calls[1].fn = "getAccount"
          /\ c.calls[1].arg = SourceOf(c.op)
          /\ c.frame.method = MethodOf(c.op.name)
          /\ c.frame.contract = NeededId(c.op.name)[1]
     /\ Len(c.calls) = 2 =>
          /\ c.calls[2].fn = "simulateTransaction"
          /\ c.calls[2].arg.source = c.calls[1].reply[1].id
          /\ c.calls[2].arg.sequence = c.calls[1].reply[1].sequence
          /\ c.calls[2].arg.contract = c.frame.contract
          /\ c.calls[2].arg.method = c.frame.method
          /\ c.calls[2].arg.args = c.frame.args
     /\ (c.pc = "done" /\ Len(c.calls) = 2 /\ c.calls[2].reply[1].kind = "error") =>
          c.ret = Error(c.calls[2].reply[1].error)
     /\ (c.pc = "done" /\ Len(c.calls) = 2 /\ c.calls[2].reply[1].kind = "success") =>
          c.ret = Completes(c.op.name, c.calls[2].arg, c.calls[2].reply[1])

\* two calls with the same arguments and the same replies have sent and
\* returned the same
SameOutcome(c, d) ==
  (c.op.name = d.op.name /\ c.op = d.op /\ Len(c.calls) = Len(d.calls) /\ c.pc = d.pc
     /\ Replies(c) = Replies(d)) =>
     /\ c.calls = d.calls
     /\ c.frame = d.frame
     /\ c.ret = d.ret

NoSharedState ==
  /\ \A i \in 1..Len(AllCalls) : OwnOutcome(AllCalls[i])
  /\ \A i, j \in 1..Len(AllCalls) : SameOutcome(AllCalls[i], AllCalls[j])

\* C19: the SDK keeps no shared mutable state: no step of any operation changes
\* the configuration, and under every interleaving of the calls of MaxCallers
\* callers on one instance what each call sends and returns follows from its
\* own arguments, the configuration and the replies to its own calls.
C19_NoSharedState == [][global' = global]_vars /\ []NoSharedState

C19_Witness ==
  /\ Len(parked) = 1
  /\ parked[1].pc = "simulateTransaction" /\ parked[1].op.name = "searchDomain"
  /\ pc = "done" /\ op.name = "setDomainData" /\ ret.kind = "return"
  /\ calls[2].arg.method = "set"

\* ------------------------------------------- parseDomain called repeatedly
\* Calls of parseDomain one after the other, the earlier outcomes kept beside
\* the running one.
RepeatSubDomains == {None, Some(<<"a">>)}
RepeatTlds == {None, Some(<<"a">>)}

RepeatNext ==
  \/ CanCall /\ \E d \in Names, s \in RepeatSubDomains, t \in RepeatTlds : ParseDomain(d, s, t)
  \/ Suspend

RepeatSpec == StaticInit /\ [][RepeatNext]_vars

ParsedBoth(c, d) == c.pc = "done" /\ d.pc = "done" /\ c.op.name = "parseDomain" /\ d.op.name = "parseDomain"

\* C20: parseDomain is deterministic and separates names: two calls with the
\* same (domain, subDomain, tld) return the same string, and, the hash having
\* no collisions, two calls with different domains, the same tld and no
\* subDomain return different strings.
C20_DeterministicAndSeparating ==
  \A i, j \in 1..Len(AllCalls) :
    LET c == AllCalls[i]
        d == AllCalls[j]
    IN  ParsedBoth(c, d) =>
          /\ c.op = d.op => c.ret = d.ret
          /\ (c.op.domain # d.op.domain /\ c.op.tld = d.op.tld
                /\ c.op.subDomain = None /\ d.op.subDomain = None) =>
                c.ret.value # d.ret.value

C20_Witness ==
  /\ Len(parked) = 1 /\ ParsedBoth(Running, parked[1])
  /\ op.domain = <<"A">> /\ parked[1].op.domain = <<"a">>
  /\ op.tld = None /\ parked[1].op.tld = None
  /\ op.subDomain = None /\ parked[1].op.subDomain = None
  /\ ret.value # parked[1].ret.value

\* ------------------------------------------------------------- Keccak-256
(***************************************************************************)
(* crypto.subtle.digestSync("KECCAK-256", bytes) bit by bit: the sponge of *)
(* Keccak with a rate of 136 bytes, the multi-rate padding 0x01 .. 0x80,   *)
(* the permutation Keccak-f[1600] of 24 rounds and a digest of 32 bytes.   *)
(* The 1600 bits are 25 lanes of 64 bits; lane (x, y) is element           *)
(* x + 5y + 1 of the sequence `lanes', bit k of a lane element k + 1 of    *)
(* the lane.  The calls of hash and parseDomain run as a machine that      *)
(* takes one step per round, so that every digest is computed in full.     *)
(***************************************************************************)
Rate == 136
DigestLen == 32
Rounds == 24
LaneBits == 64
LaneCount == 25

\* the rotation offset of lane x + 5y + 1
RotationOffsets ==
  <<0, 1, 62, 28, 27, 36, 44, 6, 55, 20, 3, 10, 43, 25, 39, 41, 45, 15, 21, 8, 18, 2, 61, 56, 14>>

\* the bits set in the round constant of each round
RoundConstants ==
  <<{0}, {1, 7, 15}, {1, 3, 7, 15, 63}, {15, 31, 63}, {0, 1, 3, 7, 15}, {0, 31},
    {0, 7, 15, 31, 63}, {0, 3, 15, 63}, {1, 3, 7}, {3, 7}, {0, 3, 15, 31}, {1, 3, 31},
    {0, 1, 3, 7, 15, 31}, {0, 1, 3, 7, 63}, {0, 3, 7, 15, 63}, {0, 1, 15, 63}, {1, 15, 63},
    {7, 63}, {1, 3, 15}, {1, 3, 31, 63}, {0, 7, 15, 31, 63}, {7, 15, 63}, {0, 31},
    {3, 15, 31, 63}>>

\* a function over 1..n as the sequence of its values
Evaluated(f) == SubSeq(f, 1, Len(f))

\* one round of Keccak-f[1600]: theta, rho and pi, chi, iota
KeccakRound(A, r) ==
  LET C == Evaluated([x \in 1..5 |-> Evaluated([j \in 1..LaneBits |->
             (((A[x][j] # A[x + 5][j]) # A[x + 10][j]) # A[x + 15][j]) # A[x + 20][j]])])
      D == Evaluated([x \in 1..5 |-> Evaluated([j \in 1..LaneBits |->
             C[((x + 3) % 5) + 1][j] # C[(x % 5) + 1][((j + LaneBits - 2) % LaneBits) + 1]])])
      B == Evaluated([i \in 1..LaneCount |->
             LET X == (i - 1) % 5
                 Y == (i - 1) \div 5
                 s == ((X + 3 * Y) % 5) + 5 * X + 1
             IN  Evaluated([j \in 1..LaneBits |->
                   LET k == ((j - 1 - RotationOffsets[s] + LaneBits) % LaneBits) + 1
                   IN  A[s][k] # D[((s - 1) % 5) + 1][k]])])
  IN  Evaluated([i \in 1..LaneCount |->
        LET X == (i - 1) % 5
            Y == (i - 1) \div 5
        IN  Evaluated([j \in 1..LaneBits |->
              LET chi == B[i][j] # (~B[((X + 1) % 5) + 5 * Y + 1][j]
                                      /\ B[((X + 2) % 5) + 5 * Y + 1][j])
              IN  IF i = 1 /\ (j - 1) \in RoundConstants[r] THEN ~chi ELSE chi])])

\* a variant of Pad with the domain byte of SHA3-256
PadSha3(data) ==
  LET n == Rate - (Len(data) % Rate)
  IN  data \o [i \in 1..n |-> (IF i = 1 THEN 6 ELSE 0) + (IF i = n THEN 128 ELSE 0)]

\* the padding of Keccak: 0x01, zeros, 0x80 up to a whole number of blocks
Pad(data) ==
  LET n == Rate - (Len(data) % Rate)
  IN  data \o [i \in 1..n |-> (IF i = 1 THEN 1 ELSE 0) + (IF i = n THEN 128 ELSE 0)]

ByteBit(b, k) == (b \div (2 ^ k)) % 2 = 1

\* a block of Rate bytes is xored into the first lanes, little-endian
Absorb(A, block) ==
  Evaluated([i \in 1..LaneCount |-> Evaluated([j \in 1..LaneBits |->
     IF 8 * i <= Rate
       THEN A[i][j] # ByteBit(block[8 * (i - 1) + ((j - 1) \div 8) + 1], (j - 1) % 8)
       ELSE A[i][j]])])

RECURSIVE ByteOf(_, _)
ByteOf(bits, k) ==
  IF k > Len(bits) THEN 0 ELSE (IF bits[k] THEN 2 ^ (k - 1) ELSE 0) + ByteOf(bits, k + 1)

\* the digest: the first DigestLen bytes of the lanes
Squeeze(A) ==
  Evaluated([n \in 1..DigestLen |->
    ByteOf(SubSeq(A[((n - 1) \div 8) + 1], 8 * ((n - 1) % 8) + 1, 8 * ((n - 1) % 8) + 8), 1)])

ZeroLanes == Evaluated([i \in 1..LaneCount |-> Evaluated([j \in 1..LaneBits |-> FALSE])])

\* typeof text === "string" ? new TextEncoder().encode(text) : text
HashInput(data) == IF data.typeof = "string" THEN TextEncode(data.data) ELSE data.data

\* the calls of hash that a call makes, in the order of their evaluation:
\* this.hash(x) of a given x; this.hash(concat([a, b])) of the two digests
\* computed last; this.hash(node) of the digest computed last
HashOf(data) == [kind |-> "hash", input |-> data]
HashOfConcat == [kind |-> "concat", input |-> Null]
HashOfNode == [kind |-> "node", input |-> Null]

\* a variant of ParseDomainHashes that hashes the domain before the tld
ParseDomainHashesDomainFirst(domain, subDomain, tld) ==
  <<HashOf(Str(domain)), HashOf(Str(TldOrDefault(tld))), HashOfConcat>>
    \o (IF HasSubDomain(subDomain)
          THEN <<HashOfNode, HashOf(Str(subDomain[1])), HashOfConcat>>
          ELSE <<>>)

\* parseDomain: hash(concat([hash(tld || "xlm"), hash(domain)])), and with a
\* subDomain hash(concat([hash(node), hash(subDomain)]))
ParseDomainHashes(domain, subDomain, tld) ==
  <<HashOf(Str(TldOrDefault(tld))), HashOf(Str(domain)), HashOfConcat>>
    \o (IF HasSubDomain(subDomain)
          THEN <<HashOfNode, HashOf(Str(subDomain[1])), HashOfConcat>>
          ELSE <<>>)

\* the locals of a running call: the calls of hash to make, the digests
\* computed, and the sponge of the digest under way (round 0: none under way;
\* round Rounds + 1: the permutation is through)
HashFrame(todo) == [todo |-> todo, digests |-> <<>>, blocks |-> <<>>, lanes |-> <<>>, round |-> 0]

Top(digests) == digests[Len(digests)]

\* the bytes the next call of hash is given
NextInput(fr) ==
  LET h == Head(fr.todo)
      n == Len(fr.digests)
  IN  CASE h.kind = "hash" -> HashInput(h.input)
        [] h.kind = "concat" -> concat(fr.digests[n - 1], fr.digests[n])
        [] h.kind = "node" -> Top(fr.digests)

\* the digests once the next call of hash has returned d
NextDigests(fr, d) ==
  LET h == Head(fr.todo)
      n == Len(fr.digests)
  IN  CASE h.kind = "hash" -> Append(fr.digests, d)
        [] h.kind = "concat" -> Append(SubSeq(fr.digests, 1, n - 2), d)
        [] h.kind = "node" -> Append(fr.digests, d)

\* SorobanDomainsSDK.hash(text) is called
HashStart(data) ==
  /\ CanCall
  /\ pc' = "digestSync"
  /\ op' = [name |-> "hash", data |-> data]
  /\ frame' = HashFrame(<<HashOf(data)>>)
  /\ UNCHANGED <<global, calls, ret, parked>>

\* SorobanDomainsSDK.parseDomain(params) is called
ParseDomainStart(domain, subDomain, tld) ==
  /\ CanCall
  /\ pc' = "digestSync"
  /\ op' = [name |-> "parseDomain", domain |-> domain, subDomain |-> subDomain, tld |-> tld]
  /\ frame' = HashFrame(ParseDomainHashes(domain, subDomain, tld))
  /\ UNCHANGED <<global, calls, ret, parked>>

\* digestSync is given its bytes
DigestInput ==
  /\ pc = "digestSync" /\ frame.round = 0 /\ frame.todo # <<>>
  /\ frame' = [frame EXCEPT !.blocks = Pad(NextInput(frame)), !.lanes = ZeroLanes,
                            !.round = Rounds + 1]
  /\ UNCHANGED <<global, pc, op, calls, ret, parked>>

\* the next block is absorbed
DigestAbsorb ==
  /\ pc = "digestSync" /\ frame.round = Rounds + 1 /\ frame.blocks # <<>>
  /\ frame' = [frame EXCEPT !.lanes = Absorb(frame.lanes, SubSeq(frame.blocks, 1, Rate)),
                            !.blocks = SubSeq(frame.blocks, Rate + 1, Len(frame.blocks)),
                            !.round = 1]
  /\ UNCHANGED <<global, pc, op, calls, ret, parked>>

\* one round of the permutation
DigestRound ==
  /\ pc = "digestSync" /\ frame.round \in 1..Rounds
  /\ frame' = [frame EXCEPT !.lanes = KeccakRound(frame.lanes, frame.round),
                            !.round = frame.round + 1]
  /\ UNCHANGED <<global, pc, op, calls, ret, parked>>

\* digestSync returns, and with it this call of hash
DigestSqueeze ==
  /\ pc = "digestSync" /\ frame.round = Rounds + 1 /\ frame.blocks = <<>>
  /\ frame' = [frame EXCEPT !.digests = NextDigests(frame, Squeeze(frame.lanes)),
                            !.todo = Tail(frame.todo), !.lanes = <<>>, !.round = 0]
  /\ UNCHANGED <<global, pc, op, calls, ret, parked>>

\* the call returns: hash the digest, parseDomain encodeHex of the digest
DigestReturn ==
  /\ pc = "digestSync" /\ frame.round = 0 /\ frame.todo = <<>>
  /\ pc' = "done"
  /\ ret' = Return(IF op.name = "hash" THEN Top(frame.digests) ELSE encodeHex(Top(frame.digests)))
  /\ frame' = NoFrame
  /\ UNCHANGED <<global, op, calls, parked>>

Digest == DigestInput \/ DigestAbsorb \/ DigestRound \/ DigestSqueeze \/ DigestReturn

Stellar == <<"s", "t", "e", "l", "l", "a", "r">>
Payments == <<"p", "a", "y", "m", "e", "n", "t", "s">>

\* the texts and byte strings handed to hash, one of them a whole block long
HashInputs ==
  LET texts == {<<>>, <<"x", "l", "m">>, Payments, [i \in 1..Rate |-> "a"]}
  IN  {Str(t) : t \in texts} \cup {Buffer(TextEncode(t)) : t \in texts}

HashNext ==
  \/ CanCall /\ \E data \in HashInputs : HashStart(data)
  \/ Digest
  \/ Suspend

HashSpec == StaticInit /\ [][HashNext]_vars

NodeDomains == {Stellar, <<>>, <<"a">>}
NodeSubDomains == {None, Some(Payments), Some(<<>>)}
NodeTlds == {None, Some(<<"x", "l", "m">>), Some(<<>>), Some(<<"a">>)}

NodeNext ==
  \/ CanCall /\ \E d \in NodeDomains, s \in NodeSubDomains, t \in NodeTlds : ParseDomainStart(d, s, t)
  \/ Digest

NodeSpec == StaticInit /\ [][NodeNext]_vars

\* the vectors of the test suite
ExpectedNode ==
  <<"2", "f", "e", "4", "c", "c", "6", "a", "1", "5", "f", "9", "4", "6", "6", "b",
    "a", "d", "7", "1", "e", "d", "4", "0", "7", "a", "8", "f", "1", "b", "7", "d",
    "a", "8", "1", "e", "f", "d", "9", "3", "1", "e", "7", "7", "1", "2", "7", "5",
    "3", "1", "5", "2", "a", "a", "1", "7", "a", "b", "c", "0", "e", "0", "6", "e">>

ExpectedSubNode ==
  <<"c", "5", "e", "4", "e", "1", "b", "8", "2", "e", "f", "7", "5", "4", "e", "f",
    "d", "a", "d", "5", "c", "3", "c", "e", "2", "f", "1", "e", "d", "0", "e", "b",
    "7", "d", "6", "4", "0", "0", "7", "6", "e", "1", "6", "7", "4", "a", "e", "b",
    "c", "6", "b", "9", "4", "1", "9", "f", "e", "1", "1", "b", "2", "e", "7", "a">>

ExpectedXlm ==
  <<"7", "4", "5", "b", "b", "2", "8", "9", "9", "9", "b", "7", "d", "2", "2", "e",
    "0", "4", "e", "c", "c", "9", "7", "1", "9", "a", "4", "6", "0", "c", "a", "0",
    "8", "b", "4", "c", "0", "a", "c", "2", "0", "4", "4", "a", "d", "f", "2", "3",
    "a", "d", "2", "b", "b", "4", "d", "b", "8", "f", "8", "e", "a", "f", "6", "b">>

ExpectedPayments ==
  <<"b", "e", "6", "7", "d", "0", "b", "9", "9", "0", "c", "3", "d", "d", "d", "3",
    "b", "6", "a", "1", "2", "4", "0", "4", "9", "9", "a", "2", "8", "3", "c", "6",
    "1", "8", "3", "8", "1", "d", "7", "1", "3", "b", "4", "a", "f", "1", "2", "3",
    "7", "f", "1", "c", "9", "e", "3", "1", "8", "e", "5", "1", "0", "2", "a", "6">>

IsLowerHex(text) == \A i \in 1..Len(text) : \E v \in 1..16 : HexDigits[v] = text[i]

NodeDone == pc = "done" /\ op.name = "parseDomain"

\* C21: parseDomain of the domain "stellar" is 2fe4...e06e, and with the
\* subDomain "payments" c5e4...2e7a; every result of parseDomain is a text
\* of exactly 64 lowercase hexadecimal digits.
C21_NodeVectors ==
  NodeDone =>
    /\ Len(ret.value) = 2 * DigestLen /\ IsLowerHex(ret.value)
    /\ (op.domain = Stellar /\ op.subDomain = None /\ op.tld = None) => ret.value = ExpectedNode
    /\ (op.domain = Stellar /\ op.subDomain = Some(Payments) /\ op.tld = None) =>
         ret.value = ExpectedSubNode

C21_Witness ==
  /\ NodeDone /\ op.domain = Stellar /\ op.subDomain = Some(Payments) /\ op.tld = None
  /\ ret.value = ExpectedSubNode

HashDone(c) == c.pc = "done" /\ c.op.name = "hash"

IsBytes(v, n) == Len(v) = n /\ \A i \in 1..Len(v) : v[i] \in 0..255

\* C22: hash is Keccak-256 of the UTF-8 bytes of a text, or of the bytes it
\* is given, and always 32 bytes long; hash("xlm") is 745b...af6b and
\* hash("payments") is be67...02a6; a text and its UTF-8 bytes have the same
\* hash.
C22_HashVectors ==
  \A i, j \in 1..Len(AllCalls) :
    LET c == AllCalls[i]
        d == AllCalls[j]
    IN  HashDone(c) =>
          /\ IsBytes(c.ret.value, DigestLen)
          /\ c.op.data = Str(<<"x", "l", "m">>) => c.ret.value = decodeHex(ExpectedXlm)
          /\ c.op.data = Str(Payments) => c.ret.value = decodeHex(ExpectedPayments)
          /\ (HashDone(d) /\ c.op.data.typeof = "string"
                /\ d.op.data = Buffer(TextEncode(c.op.data.data))) => c.ret = d.ret

C22_Witness ==
  /\ Len(parked) = 1 /\ HashDone(Running) /\ HashDone(parked[1])
  /\ op.data = Str(Payments) /\ parked[1].op.data = Buffer(TextEncode(Payments))
  /\ ret.value = decodeHex(ExpectedPayments) /\ ret = parked[1].ret

\* --------------------------------------------------------- 128-bit numbers
(***************************************************************************)
(* A bigint is a sign and a magnitude, the magnitude a sequence of bits    *)
(* from the least significant one with no leading zero, so that two        *)
(* bigints are equal exactly when their values are.  On the wire an i128   *)
(* is Int128Parts {hi: Int64, lo: Uint64}, two words of 64 bits.           *)
(***************************************************************************)
WordBits == 64
Int128Bits == 128

\* the position of the most significant bit that is set, 0 when none is
TopBit(bits) ==
  LET set == {0} \cup {i \in 1..Len(bits) : bits[i]}
  IN  CHOOSE m \in set : \A k \in set : k <= m

\* the magnitude without its leading zeros
Strip(bits) ==
  LET b == Evaluated(bits)
  IN  SubSeq(b, 1, TopBit(b))

Wide(neg, mag) ==
  LET m == Strip(mag)
  IN  [neg |-> neg /\ m # <<>>, mag |-> m]

\* the low w bits of a magnitude
PadTo(bits, w) ==
  LET b == Evaluated(bits)
  IN  Evaluated([i \in 1..w |-> IF i <= Len(b) THEN b[i] ELSE FALSE])

Not(bits) ==
  LET b == Evaluated(bits)
  IN  Evaluated([i \in 1..Len(b) |-> ~b[i]])

\* bits + 1 and bits - 1 in the width of bits
Inc(bits) ==
  LET b == Evaluated(bits)
  IN  Evaluated([i \in 1..Len(b) |-> b[i] # (\A j \in 1..(i - 1) : b[j])])

Dec(bits) ==
  LET b == Evaluated(bits)
  IN  Evaluated([i \in 1..Len(b) |-> b[i] # (\A j \in 1..(i - 1) : ~b[j])])

\* the two's complement of a bigint in w bits
TwosComplement(n, w) == IF n.neg THEN Inc(Not(PadTo(n.mag, w))) ELSE PadTo(n.mag, w)

\* BigInt.asUintN(w, n)
asUintN(w, n) == Wide(FALSE, TwosComplement(n, w))

\* BigInt.asIntN(w, n)
asIntN(w, n) ==
  LET b == TwosComplement(n, w)
  IN  IF b[w] THEN Wide(TRUE, Inc(Not(b))) ELSE Wide(FALSE, b)

\* n >> k: the floor of n / 2^k
ShiftRight(n, k) ==
  IF n.neg
    THEN Wide(TRUE, Inc(PadTo(SubSeq(Dec(n.mag), k + 1, Len(n.mag)), Len(n.mag) + 1)))
    ELSE Wide(FALSE, SubSeq(n.mag, k + 1, Len(n.mag)))

\* n << k and a | b of bigints that are not negative
ShiftLeft(n, k) == Wide(FALSE, [i \in 1..k |-> FALSE] \o n.mag)

Or(a, b) ==
  LET w == IF Len(a.mag) > Len(b.mag) THEN Len(a.mag) ELSE Len(b.mag)
      x == PadTo(a.mag, w)
      y == PadTo(b.mag, w)
  IN  Wide(FALSE, [i \in 1..w |-> x[i] \/ y[i]])

\* an xdr.Int64 / xdr.Uint64 holds 64 bits; its value as a bigint
Int64Value(bits) == asIntN(WordBits, Wide(FALSE, bits))
Uint64Value(bits) == Wide(FALSE, bits)

Int128Parts(hi, lo) == [hi |-> hi, lo |-> lo]

\* a variant of toI128 whose high word is taken from the magnitude
toI128Magnitude(n) ==
  scvI128(Int128Parts(TwosComplement(asIntN(WordBits, ShiftRight(Wide(FALSE, n.mag), WordBits)), WordBits),
                      TwosComplement(asUintN(WordBits, n), WordBits)))

\* nativeToScVal(n, { type: "i128" }): hi = asIntN(64, n >> 64), lo = asUintN(64, n)
toI128(n) ==
  scvI128(Int128Parts(TwosComplement(asIntN(WordBits, ShiftRight(n, WordBits)), WordBits),
                      TwosComplement(asUintN(WordBits, n), WordBits)))

\* scValToBigInt of an i128: asIntN(128, asUintN(64, lo) | asUintN(64, hi) << 64)
scValToBigInt(scv) ==
  asIntN(Int128Bits, Or(asUintN(WordBits, Uint64Value(scv.body.lo)),
                        ShiftLeft(asUintN(WordBits, Int64Value(scv.body.hi)), WordBits)))

WideBigInt(n) == [typeof |-> "bigint", data |-> n]

\* the vec that setDomainData sends for (Number, n)
NumberScVal(value) == scvVec(<<scvSymbol(value.tag), toI128(value.payload.data)>>)

\* scValToNative of the vec that getDomainData receives
NumberNative(scv) ==
  Array([i \in 1..Len(scv.body) |->
    IF scv.body[i].arm = "scvI128" THEN WideBigInt(scValToBigInt(scv.body[i]))
    ELSE scValToNative(scv.body[i])])

\* setDomainData encodes (Number, n); the wire value is what the contract keeps
EncodeNumber(n) ==
  /\ CanCall
  /\ pc' = "stored"
  /\ op' = [name |-> "setDomainData", value |-> StorageValue("Number", WideBigInt(n))]
  /\ frame' = [contract |-> "", method |-> "set",
               args |-> <<NumberScVal(StorageValue("Number", WideBigInt(n)))>>]
  /\ UNCHANGED <<global, calls, ret, parked>>

\* getDomainData decodes the wire value kept
DecodeNumber ==
  /\ pc = "stored"
  /\ pc' = "done"
  /\ ret' = GetDomainDataResult(NumberNative(frame.args[1]))
  /\ UNCHANGED <<global, op, frame, calls, parked>>

Pow2(k) == Wide(FALSE, [i \in 1..(k + 1) |-> i = k + 1])
Pow2Minus1(k) == Wide(FALSE, [i \in 1..k |-> TRUE])
Minus(n) == Wide(~n.neg, n.mag)

\* 2^127 - 1 and -2^127
Int128Max == Pow2Minus1(Int128Bits - 1)
Int128Min == Minus(Pow2(Int128Bits - 1))

\* numbers of the signed 128-bit range: 2^k - 1, 2^k, their two neighbours and
\* the negatives of all of these
NumberInputs ==
  LET pos == {Pow2Minus1(k) : k \in 0..(Int128Bits - 1)} \cup {Pow2(k) : k \in 0..(Int128Bits - 2)}
               \cup {Wide(FALSE, PadTo(Inc(Pow2(k).mag), k + 1)) : k \in 1..(Int128Bits - 2)}
               \cup {Wide(FALSE, Dec(Pow2Minus1(k).mag)) : k \in 2..(Int128Bits - 1)}
  IN  pos \cup {Minus(n) : n \in pos} \cup {Int128Min}

NumberNext ==
  \/ CanCall /\ \E n \in NumberInputs : EncodeNumber(n)
  \/ DecodeNumber

NumberSpec == StaticInit /\ [][NumberNext]_vars

NumberDone == pc = "done" /\ op.name = "setDomainData" /\ frame.method = "set"

\* C23: a Number storage value goes round unchanged: for every n of the
\* signed 128-bit range, -2^127 and 2^127 - 1 included, what getDomainData
\* decodes from the wire value that setDomainData encodes for (Number, n) is
\* (Number, n), tag and value.
C23_NumberRoundTrip ==
  NumberDone => ret = Return(Array(<<Str(op.value.tag), op.value.payload>>))

C23_Witness ==
  /\ NumberDone /\ op.value.payload.data = Int128Min
  /\ frame.args[1].body[2].body.hi = [i \in 1..WordBits |-> i = WordBits]
  /\ ret.value.data[2].data = Int128Min

\* ------------------------------------------------------------ the 0.5.0 SDK
(***************************************************************************)
(* The SDK of version 0.5.0 (src/unnamed/part_006): the configuration is   *)
(* the private fields that the constructor sets, the RPC server is made    *)
(* from rpcUrl when a method asks for it, and the methods that only read   *)
(* build their transaction on a local account.  `global' holds the private *)
(* fields; the decoding of replies is that of the definitions above.       *)
(***************************************************************************)
SIMULATION_ACCOUNT == "GALAXYVOIDAOPZTDLHILAJQKCVVFMD4IKLXLSZV5YHO7VY74IWZILUTO"
RegistryContractV0 == "CATRNPHYKNXAPNLHEYH55REB6YSAJLGCPA4YM6L3WUKSZOPI77M2UMKI"
KeyValueDbContractV0 == "CDH2T2CBGFPFNVRWFK4XJIRP6VOWSVTSDCRBCJ2TEIO22GADQP6RG3Y6"
ReverseRegistrarContractV0 == "CCAU556HKCUXF4LBPUV2KROU5FYGC6227G2LD3SVQ6GR6654IVTO2GBO"
NetworksPUBLIC == "PUBLIC"
DefaultFee == "100"
DefaultTimeout == 0
LocalSequence == "0"

\* a variant of OrDefault that takes whatever is there, and the default only for undefined
OrDefaultNullish(param, default) == IF param # None THEN param[1] ELSE default

\* params.x || default, x a text
OrDefault(param, default) == IF Provided(param) THEN param[1] ELSE default

\* params.defaultTimeout || 0
TimeoutOrDefault(param) == IF param # None /\ param[1] # 0 THEN param[1] ELSE DefaultTimeout

\* new SorobanDomainsSDK(params): the private fields
NewSDK(params) ==
  [rpcUrl |-> params.rpcUrl,
   simulationAccount |-> OrDefault(params.simulationAccount, SIMULATION_ACCOUNT),
   globalFee |-> OrDefault(params.defaultFee, DefaultFee),
   registerContract |-> OrDefault(params.registryContractId, RegistryContractV0),
   keyValueDbContract |-> OrDefault(params.keyValuesDatabaseContractId, KeyValueDbContractV0),
   reverseRegistrarContract |-> OrDefault(params.reverseRegistrarContractId, ReverseRegistrarContractV0),
   network |-> OrDefault(params.network, NetworksPUBLIC),
   defaultTimeout |-> TimeoutOrDefault(params.defaultTimeout)]

\* a variant of ServerThrows that never throws
ServerThrowsNever(fields) == FALSE

\* get server(): if (!this.#rpcUrl) throw
ServerThrows(fields) == ~Provided(fields.rpcUrl)

\* (the source's message has rpcUrl in backquotes)
RpcUrlRequired == Error("This method requires that you define an rpcUrl value.")

\* new TransactionBuilder(account, {networkPassphrase, fee}).setTimeout(..).addOperation(..).build()
BuildTransaction_050(account, fr) ==
  [source |-> account.id, sequence |-> account.sequence,
   networkPassphrase |-> global.network, fee |-> global.globalFee,
   timeout |-> global.defaultTimeout,
   contract |-> fr.contract, method |-> fr.method, args |-> fr.args,
   sorobanData |-> None, signatures |-> <<>>]

\* new Account(this.#simulationAccount, "0")
LocalAccount == AccountReply(global.simulationAccount, LocalSequence)

\* a variant of ReadAwaits that fetches the simulation account first
ReadAwaitsAccount(o, fr) ==
  IF ServerThrows(global) THEN Ends(o, RpcUrlRequired)
  ELSE AwaitsAccount(o, fr, global.simulationAccount)

\* a read: the transaction is built on the local account, then
\* await this.server.simulateTransaction(transaction)
ReadAwaits(o, fr) ==
  IF ServerThrows(global) THEN Ends(o, RpcUrlRequired)
  ELSE /\ op' = o
       /\ frame' = fr
       /\ calls' = <<SimulateCall(BuildTransaction_050(LocalAccount, fr))>>
       /\ pc' = "simulateTransaction"
       /\ ret' = Pending
       /\ UNCHANGED <<global, parked>>

\* a write: await this.server.getAccount(params.source)
WriteAwaits(o, fr, source) ==
  IF ServerThrows(global) THEN Ends(o, RpcUrlRequired)
  ELSE AwaitsAccount(o, fr, source)

SearchDomain_050(domain, subDomain) ==
  /\ CanCall
  /\ LET o == [name |-> "searchDomain", domain |-> domain, subDomain |-> subDomain]
     IN  ReadAwaits(o, [contract |-> global.registerContract, method |-> "record",
                        args |-> <<RecordKeyScVal(domain, subDomain)>>])

GetDomainData_050(node, key) ==
  /\ CanCall
  /\ LET o == [name |-> "getDomainData", node |-> node, key |-> key]
     IN  ReadAwaits(o, [contract |-> global.keyValueDbContract, method |-> "get",
                        args |-> <<scvBytes(decodeHex(node)), scvSymbol(key)>>])

SetDomainData_050(node, key, value, source) ==
  /\ CanCall
  /\ LET o == [name |-> "setDomainData", node |-> node, key |-> key, value |-> value, source |-> source]
         scv == StorageValueScVal(value)
     IN  IF scv = None
           THEN Ends(o, DomainDataUnsupportedValueType)
           ELSE WriteAwaits(o, [contract |-> global.keyValueDbContract, method |-> "set",
                                args |-> <<scvBytes(decodeHex(node)), scvSymbol(key), scv[1]>>],
                            source)

RemoveDomainData_050(node, key, source) ==
  /\ CanCall
  /\ LET o == [name |-> "removeDomainData", node |-> node, key |-> key, source |-> source]
     IN  WriteAwaits(o, [contract |-> global.keyValueDbContract, method |-> "remove",
                         args |-> <<scvBytes(decodeHex(node)), scvSymbol(key)>>],
                     source)

SetReverseDomain_050(address, domain, source) ==
  /\ CanCall
  /\ LET o == [name |-> "setReverseDomain", address |-> address, domain |-> domain, source |-> source]
         scv == ReverseDomainScVal(domain)
     IN  IF scv = None
           THEN Ends(o, Error("Invalid domain format"))
           ELSE WriteAwaits(o, [contract |-> global.reverseRegistrarContract, method |-> "set",
                                args |-> <<scvAddress(address), scv[1]>>],
                            source)

GetReverseDomain_050(address) ==
  /\ CanCall
  /\ LET o == [name |-> "getReverseDomain", address |-> address]
     IN  ReadAwaits(o, [contract |-> global.reverseRegistrarContract, method |-> "get",
                        args |-> <<scvAddress(address)>>])

\* this.server.getAccount resolves: the transaction is built and simulateTransaction is awaited
GetAccountReturns_050(sequence) ==
  /\ pc = "getAccount"
  /\ LET account == AccountReply(calls[Len(calls)].arg, sequence)
     IN  calls' = Append(Answered(calls, account), SimulateCall(BuildTransaction_050(account, frame)))
  /\ pc' = "simulateTransaction"
  /\ UNCHANGED <<global, op, frame, ret, parked>>

\* SorobanDomainsSDK.hash(text)
Hash(data) ==
  /\ CanCall
  /\ LET o == [name |-> "hash", data |-> data]
     IN  Ends(o, Return(IF data.typeof = "string" THEN hashText(data.data) ELSE hashBytes(data.data)))

\* the parameters handed to the constructor
NoParams ==
  [rpcUrl |-> None, registryContractId |-> None, keyValuesDatabaseContractId |-> None,
   reverseRegistrarContractId |-> None, simulationAccount |-> None, network |-> None,
   defaultFee |-> None, defaultTimeout |-> None]

AllParams ==
  [rpcUrl |-> Some("https://rpc"), registryContractId |-> Some("CREGISTRY"),
   keyValuesDatabaseContractId |-> Some("CVALUES"), reverseRegistrarContractId |-> Some("CREVERSE"),
   simulationAccount |-> Some("GSIMULATION"), network |-> Some("TESTNET"),
   defaultFee |-> Some("500"), defaultTimeout |-> Some(30)]

ParamNames == DOMAIN NoParams

ParamValues(k) ==
  IF k = "defaultTimeout" THEN {None, Some(0), Some(30)} ELSE {None, Some(""), AllParams[k]}

\* no parameter, every parameter, and each of the two with one parameter changed
Params_050 ==
  UNION {{[b EXCEPT ![k] = v] : b \in {NoParams, AllParams}, v \in ParamValues(k)} : k \in ParamNames}

\* the state after construction
Init_050 ==
  /\ \E params \in Params_050 :
       /\ global = NewSDK(params)
       /\ op = [name |-> "constructor", params |-> params]
  /\ pc = "done"
  /\ frame = NoFrame
  /\ calls = <<>>
  /\ ret = Return(Undefined)
  /\ parked = <<>>

Values_050 ==
  {StorageValue("Bytes", Buffer(<<1, 2>>)), StorageValue("Number", BigInt(42)),
   StorageValue("String", Str("hello")), StorageValue("Float", BigInt(1))}

Domains_050 == {None, Some(<<"a", ".", "a">>), Some(<<"a">>)}

Next_050 ==
  \/ CanCall /\ \E d \in {<<"a">>, <<"A">>}, s \in {None, Some(<<"B">>)} : SearchDomain_050(d, s)
  \/ CanCall /\ \E n \in ConcurrentNodes : GetDomainData_050(n, "TOML")
  \/ CanCall /\ \E n \in ConcurrentNodes, v \in Values_050, a \in Accounts : SetDomainData_050(n, "TOML", v, a)
  \/ CanCall /\ \E n \in ConcurrentNodes, a \in Accounts : RemoveDomainData_050(n, "TOML", a)
  \/ CanCall /\ \E x \in Addresses, d \in Domains_050, a \in Accounts : SetReverseDomain_050(x, d, a)
  \/ CanCall /\ \E x \in Addresses : GetReverseDomain_050(x)
  \/ CanCall /\ \E data \in {Str(<<"a">>), Buffer(<<97>>)} : Hash(data)
  \/ CanCall /\ \E d \in {<<"a">>, <<"A">>}, s \in {None, Some(<<"a">>)} : ParseDomain(d, s, None)
  \/ CanCall /\ \E d \in {<<"a", ".", "x", "l", "m">>, <<"a">>} : IsValidDomain(d)
  \/ \E q \in Sequences : GetAccountReturns_050(q)
  \/ GetAccountThrows
  \/ pc = "simulateTransaction" /\ \E sim \in ConcurrentSims(op.name) : SimulateReturns(sim)
  \/ SimulateThrows
  \/ Settle

Spec_050 == Init_050 /\ [][Next_050]_vars

IsSimulate(c) == c.fn = "simulateTransaction"
IsGetAccount(c) == c.fn = "getAccount"

\* C24: in the 0.5.0 SDK searchDomain, getDomainData and getReverseDomain
\* never fetch an account: the only RPC call of one of them is one
\* simulateTransaction, of a transaction built on the simulation account
\* with the local sequence "0" (and none at all without an rpcUrl);
\* setDomainData, removeDomainData and setReverseDomain call
\* getAccount(source) first and simulate only once it has answered.
C24_ReadsFetchNoAccount ==
  /\ op.name \in Reads =>
       /\ \A i \in 1..Len(calls) : IsSimulate(calls[i])
       /\ Len(calls) = (IF Provided(global.rpcUrl) THEN 1 ELSE 0)
       /\ \A i \in 1..Len(calls) :
            /\ calls[i].arg.source = global.simulationAccount
            /\ calls[i].arg.sequence = "0"
  /\ (op.name \in Writes /\ calls # <<>>) =>
       /\ IsGetAccount(calls[1]) /\ calls[1].arg = op.source
       /\ Len(calls) <= 2
       /\ Len(calls) = 2 =>
            /\ IsSimulate(calls[2])
            /\ calls[1].reply # None /\ calls[1].reply[1].kind = "account"
            /\ calls[2].arg.source = op.source
            /\ calls[2].arg.sequence = calls[1].reply[1].sequence
  /\ (op.name \in Writes /\ pc = "simulateTransaction") => Len(calls) = 2

C24_Witness ==
  /\ op.name = "searchDomain" /\ pc = "done" /\ ret.kind = "return"
  /\ Len(calls) = 1 /\ IsSimulate(calls[1]) /\ calls[1].arg.sequence = "0"
  /\ calls[1].arg.source = SIMULATION_ACCOUNT

Constructed == op.name = "constructor"

\* the private field that a parameter of the constructor sets
FieldOf(k) ==
  CASE k = "simulationAccount" -> "simulationAccount" [] k = "defaultFee" -> "globalFee"
    [] k = "registryContractId" -> "registerContract"
    [] k = "keyValuesDatabaseContractId" -> "keyValueDbContract"
    [] k = "reverseRegistrarContractId" -> "reverseRegistrarContract"
    [] k = "network" -> "network" [] k = "defaultTimeout" -> "defaultTimeout"

DefaultOf(k) ==
  CASE k = "simulationAccount" -> "GALAXYVOIDAOPZTDLHILAJQKCVVFMD4IKLXLSZV5YHO7VY74IWZILUTO"
    [] k = "defaultFee" -> "100"
    [] k = "registryContractId" -> "CATRNPHYKNXAPNLHEYH55REB6YSAJLGCPA4YM6L3WUKSZOPI77M2UMKI"
    [] k = "keyValuesDatabaseContractId" -> "CDH2T2CBGFPFNVRWFK4XJIRP6VOWSVTSDCRBCJ2TEIO22GADQP6RG3Y6"
    [] k = "reverseRegistrarContractId" -> "CCAU556HKCUXF4LBPUV2KROU5FYGC6227G2LD3SVQ6GR6654IVTO2GBO"
    [] k = "network" -> "PUBLIC" [] k = "defaultTimeout" -> 0

DefaultedParams == ParamNames \ {"rpcUrl"}

\* C25 as stated: a parameter that is not provided gets its default, and a
\* provided value is used unchanged.
C25_AsStated ==
  Constructed =>
    \A k \in DefaultedParams :
      global[FieldOf(k)] = (IF op.params[k] = None THEN DefaultOf(k) ELSE op.params[k][1])

EmptyText(k, param) == k # "defaultTimeout" /\ param # None /\ param[1] = ""

C25_DefaultsUnlessTruthyState ==
  Constructed =>
    /\ global.rpcUrl = op.params.rpcUrl
    /\ \A k \in DefaultedParams :
         global[FieldOf(k)] = (IF op.params[k] = None \/ EmptyText(k, op.params[k])
                                 THEN DefaultOf(k) ELSE op.params[k][1])

\* C25: in the 0.5.0 SDK every constructor parameter except rpcUrl that is
\* absent, or is the empty text, gets its default (simulation account
\* SIMULATION_ACCOUNT, fee "100", the three v0 contracts, network PUBLIC,
\* timeout 0); every other provided value is used unchanged, rpcUrl is kept
\* as given, and the configuration never changes after construction.
C25_DefaultsUnlessTruthy == []C25_DefaultsUnlessTruthyState /\ [][global' = global]_vars

C25_Witness ==
  /\ Constructed /\ op.params = [AllParams EXCEPT !.defaultFee = None]
  /\ global.globalFee = "100" /\ global.registerContract = "CREGISTRY"
  /\ global.defaultTimeout = 30

Statics == {"hash", "parseDomain", "isValidDomain"}

\* the arguments pass the checks the method makes before it asks for the server
ValidArguments(o) ==
  CASE o.name = "setDomainData" -> o.value.tag \in SupportedTags
    [] o.name = "setReverseDomain" -> o.domain = None \/ HasDot(o.domain[1])
    [] OTHER -> TRUE

StaticResult(o) ==
  CASE o.name = "hash" -> digestSync(IF o.data.typeof = "string" THEN TextEncode(o.data.data) ELSE o.data.data)
    [] o.name = "parseDomain" -> parseDomain(o.domain, o.subDomain, o.tld)
    [] o.name = "isValidDomain" -> isValidDomain(o.domain)

\* C26: in the 0.5.0 SDK an instance made without rpcUrl makes no RPC call;
\* each of its six operations, its arguments valid, ends with the error that
\* rpcUrl is required, while the static hash, parseDomain and isValidDomain
\* return their results.
C26_RpcUrlRequiredByNetworkMethods ==
  global.rpcUrl = None =>
    /\ calls = <<>>
    /\ (pc = "done" /\ op.name \in Operations /\ ValidArguments(op)) => ret = RpcUrlRequired
    /\ (op.name \in Operations /\ ValidArguments(op)) => pc = "done"
    /\ (pc = "done" /\ op.name \in Statics) => ret = Return(StaticResult(op))

C26_Witness ==
  /\ global.rpcUrl = None /\ pc = "done" /\ op.name = "setDomainData"
  /\ op.value.tag = "Number" /\ ret = RpcUrlRequired /\ calls = <<>>

\* the record key of a searchDomain call that has passed its configuration check
SearchSent == op.name = "searchDomain" /\ frame.method = "record"
KeySymbol == frame.args[1].body[1].body
KeyNode == frame.args[1].body[2].body

\* the domain node and the subnode of the call's lowercased names, as bytes
PlainNode == ParseNode(toLocaleLowerCase(op.domain), None)
SubNode == ParseSubNode(PlainNode, toLocaleLowerCase(op.subDomain[1]))

\* C27: the record key of searchDomain agrees with the node it carries: the
\* symbol is SubRecord exactly when a non-empty subDomain was passed and the
\* node is the subnode, and Record exactly when the node is the plain domain
\* node; a subnode and a domain node are never the same bytes.
C27_KeyAgreesWithNode ==
  SearchSent =>
    /\ KeySymbol \in {"Record", "SubRecord"}
    /\ KeySymbol = "SubRecord" <=> (op.subDomain # None /\ op.subDomain[1] # <<>> /\ KeyNode = SubNode)
    /\ KeySymbol = "Record" <=> KeyNode = PlainNode
    /\ (op.subDomain # None /\ op.subDomain[1] # <<>>) => SubNode # PlainNode

C27_Witness ==
  /\ SearchSent /\ pc = "simulateTransaction" /\ op.subDomain = Some(<<"A">>)
  /\ KeySymbol = "SubRecord" /\ KeyNode = SubNode /\ KeyNode # PlainNode

OtherTlds == {<<"a">>, <<"A">>, <<"x", "l">>, <<"x", "l", "m", "a">>}

\* C30: searchDomain passes no tld to the hasher: whatever the configuration
\* and the input, the node it queries is the one parseDomain gives under the
\* tld "xlm" for the lowercased domain and subDomain, and is the node of no
\* other top-level label.
C30_SearchesUnderXlmOnly ==
  SearchSent =>
    /\ encodeHex(KeyNode) = parseDomain(toLocaleLowerCase(op.domain), OptLower(op.subDomain), Some(Xlm))
    /\ \A t \in OtherTlds :
         encodeHex(KeyNode) # parseDomain(toLocaleLowerCase(op.domain), OptLower(op.subDomain), Some(t))

C30_Witness ==
  /\ SearchSent /\ pc = "done" /\ ret.kind = "return" /\ op.domain = <<"A", "a">> /\ op.subDomain = None
  /\ encodeHex(KeyNode) = parseDomain(<<"a", "a">>, None, Some(Xlm))

Empty == <<>>

\* C28: parseDomain takes an empty text for an absent argument: with the
\* subDomain "" it returns what it returns without a subDomain, the domain
\* node; with the tld "" it returns what it returns with the tld "xlm"; an
\* empty domain is hashed as it is and the call returns.
C28_EmptyLikeAbsent ==
  ParseDone =>
    /\ ret.kind = "return"
    /\ op.subDomain = Some(Empty) =>
         /\ ret.value = parseDomain(op.domain, None, op.tld)
         /\ ret.value = encodeHex(ParseNode(op.domain, op.tld))
    /\ op.tld = Some(Empty) => ret.value = parseDomain(op.domain, op.subDomain, Some(Xlm))
    /\ (op.domain = Empty /\ op.subDomain = None /\ op.tld = None) =>
         ret.value = encodeHex(digestSync(digestSync(TextEncode(Xlm)) \o digestSync(Empty)))

C28_Witness ==
  /\ ParseDone /\ op.domain = <<"a">> /\ op.subDomain = Some(Empty) /\ op.tld = Some(Empty)
  /\ ret.value = parseDomain(<<"a">>, None, Some(Xlm))
  /\ ret.value # parseDomain(<<"a">>, None, Some(<<"a">>))

\* ------------------------------------------------------------- termination
LiveSims(name) == ConcurrentSims(name) \cup {SimRestore(r) : r \in ConcurrentRetVals(name)}

\* an RPC call that is awaited answers, and the call goes on from its await
RpcAnswers ==
  \/ \E q \in Sequences : GetAccountReturns(q)
  \/ GetAccountThrows
  \/ pc = "simulateTransaction" /\ \E sim \in LiveSims(op.name) : SimulateReturns(sim)
  \/ SimulateThrows

LiveNext ==
  \/ CanCall /\ \E d \in {<<"a">>, <<"A">>}, s \in {None, Some(<<"B">>)} : SearchDomain(d, s)
  \/ CanCall /\ \E n \in NodeInputs, k \in KeyInputs : GetDomainData(n, k)
  \/ CanCall /\ \E n \in NodeInputs, k \in KeyInputs, v \in ValueInputs, a \in Accounts : SetDomainData(n, k, v, a)
  \/ CanCall /\ \E n \in NodeInputs, k \in KeyInputs, a \in Accounts : RemoveDomainData(n, k, a)
  \/ CanCall /\ \E x \in Addresses, d \in Domains_050, a \in Accounts : SetReverseDomain(x, d, a)
  \/ CanCall /\ \E x \in Addresses : GetReverseDomain(x)
  \/ RpcAnswers
  \/ Settle

\* the RPC calls awaited answer in the end
LiveSpec == Init /\ [][LiveNext]_vars /\ WF_vars(RpcAnswers)

Awaiting == pc \in {"getAccount", "simulateTransaction"}

NotFoundOutcomes == {Domain404Error, DomainData404Error, ReverseDomain404Error}

C29_Order ==
  op.name \in Operations =>
    /\ Len(calls) <= 2
    /\ calls # <<>> => IsGetAccount(calls[1])
    /\ Len(calls) = 2 =>
         /\ IsSimulate(calls[2])
         /\ calls[1].reply # None /\ calls[1].reply[1].kind = "account"
    /\ pc = "getAccount" => (Len(calls) = 1 /\ calls[1].reply = None)
    /\ pc = "simulateTransaction" => (Len(calls) = 2 /\ calls[2].reply = None)
    /\ (calls # <<>> /\ calls[1].reply # None /\ calls[1].reply[1].kind = "rejected") =>
         (Len(calls) = 1 /\ pc = "done" /\ ret.kind = "throw")
    /\ (pc = "done" /\ (ret.kind = "return" \/ ret \in NotFoundOutcomes)) => SimAnswered
    /\ (pc = "done" /\ ret.kind = "return" /\ op.name \in Writes) =>
         ret.value.tx.sorobanData = Some(SimReply.transactionData)

\* C29: an operation of the configuration-object SDK that reaches the
\* network calls getAccount once and, only when it has answered with an
\* account, simulateTransaction once; it decodes a reply or assembles a
\* transaction only after a simulation that is no error; when getAccount
\* fails it ends without a simulateTransaction call; and, the RPC calls it
\* awaits answering, it ends.
C29_FixedOrderAndTermination == []C29_Order /\ (Awaiting ~> pc = "done")

C29_Witness ==
  /\ pc = "done" /\ op.name = "setDomainData" /\ ret.kind = "return"
  /\ Len(calls) = 2 /\ IsGetAccount(calls[1]) /\ calls[1].reply[1].kind = "account"
  /\ IsSimulate(calls[2]) /\ calls[2].reply[1].kind = "success"
====
